---- MODULE Spec2Model ----
(***************************************************************************)
(* Store-and-forward logistics protocol of CIRS (xIRS v1.8).               *)
(*                                                                         *)
(*   SpecChunk : QRChunker / QRReassembler  (shared/protocol/chunking.py)  *)
(*   Spec      : the Hub's ingest_packet, provision_station,               *)
(*               update_station, delete_station and create_manifest on     *)
(*               one database, run by two Hub processes                    *)
(*               (backend/routes/logistics.py, backend/database.py)        *)
(*   SpecRetry : Spec with reports as ReportBuilder makes them, a packet   *)
(*               sent again only after the answer to the call before       *)
(*   SpecReuse : ingest_packet with a packet_id that two stations use      *)
(*   SpecFrame : chunk() and parse_chunk() on small chunk sizes and         *)
(*               spelled chunk texts                                       *)
(*   SpecAuth  : ReportDecryptor's station registry, verify_report and     *)
(*               decrypt_and_verify  (shared/protocol/report.py), with     *)
(*               the verification inside ingest_packet                     *)
(*   SpecSign  : Ed25519Signer / Ed25519Verifier                           *)
(*               (shared/crypto/signing.py)                                *)
(*   SpecManifest : ManifestBuilder down to the scanned and verified       *)
(*               manifest  (shared/protocol/manifest.py)                   *)
(*   SpecPrint : create_manifest and get_manifest_printable                *)
(*               (backend/routes/logistics.py)                             *)
(*   SpecReport : ReportBuilder down to the decrypted and verified report  *)
(*               (shared/protocol/report.py, shared/crypto/encryption.py)  *)
(*   SpecBox   : SealedBox  (shared/crypto/encryption.py)                  *)
(*   SpecBuilders : several ReportBuilder instances in one process         *)
(*               (shared/protocol/report.py)                               *)
(*   SpecAlias : ReportBuilder on a list of actions the caller goes on     *)
(*               adding to  (shared/protocol/report.py)                    *)
(*   SpecHmac  : add_hmac_to_report / verify_report_hmac                   *)
(*               (shared/crypto/hmac.py)                                   *)
(*   SpecKeys  : get_or_create_hub_keys run by two Hub processes           *)
(*               (backend/routes/logistics.py)                             *)
(*                                                                         *)
(* Text is modelled as a sequence of one-character strings, bytes as a     *)
(* sequence of integers 0..255, Python's None as the empty tuple and a     *)
(* present value v as <<v>>.                                               *)
(***************************************************************************)
EXTENDS Integers, Sequences, FiniteSets, Bags, TLC

\* ------------------------------------------------------------------------
\* Bounds of the model
\* ------------------------------------------------------------------------

\* longest payload handed to chunk(), in bytes
MaxPayloadLen == 67
\* chunk sizes tried are MinChunkSize .. MinChunkSize + ChunkSizeSpread
ChunkSizeSpread == 1
\* smallest chunk size the round-trip property is stated for
MinChunkSize == 64
\* chunk sizes 0..MaxSmallChunkSize are tried by SpecFrame besides ChunkSizes
MaxSmallChunkSize == 24
\* ingest requests the Hub processes receive
MaxCalls == 3
\* audit rows beyond which update_station is no longer called
MaxAuditRows == 4
\* items of the longest manifest create_manifest is asked for
MaxItems == 22
\* actions of the longest report create_report is asked for
MaxActions == 20
\* the most actions a caller adds to its list
MaxAppends == 3
\* calls of create_report and create_manifest_ack on one builder
MaxReports == 2

\* ------------------------------------------------------------------------
\* Option values and small helpers
\* ------------------------------------------------------------------------

None == <<>>

Some(v) == <<v>>

Min(a, b) == IF a <= b THEN a ELSE b

\* ------------------------------------------------------------------------
\* chunking.py: protocol constants
\* ------------------------------------------------------------------------

PROTOCOL_PREFIX == <<"x", "I", "R", "S">>

CHUNK_SEPARATOR == "|"

MAX_CHUNK_SIZE == 800

HEADER_OVERHEAD == 20

\* ------------------------------------------------------------------------
\* Text primitives of the Python runtime used by chunking.py
\* ------------------------------------------------------------------------

Digits == <<"0", "1", "2", "3", "4", "5", "6", "7", "8", "9">>

B64Alphabet ==
    << "A", "B", "C", "D", "E", "F", "G", "H", "I", "J", "K", "L", "M",
       "N", "O", "P", "Q", "R", "S", "T", "U", "V", "W", "X", "Y", "Z",
       "a", "b", "c", "d", "e", "f", "g", "h", "i", "j", "k", "l", "m",
       "n", "o", "p", "q", "r", "s", "t", "u", "v", "w", "x", "y", "z",
       "0", "1", "2", "3", "4", "5", "6", "7", "8", "9", "+", "/" >>

\* index (0-based) of character c in a table, or -1
IndexIn(table, c) ==
    IF \E i \in 1..Len(table) : table[i] = c
    THEN (CHOOSE i \in 1..Len(table) : table[i] = c) - 1
    ELSE -1

\* str(n) for n >= 0, as the f-string of chunk() formats seq and total
RECURSIVE FormatInt(_)
FormatInt(n) ==
    IF n < 10 THEN <<Digits[n + 1]>>
    ELSE FormatInt(n \div 10) \o <<Digits[(n % 10) + 1]>>

\* s.strip() for the blank
RECURSIVE StripLeft(_)
StripLeft(s) ==
    IF Len(s) > 0 /\ Head(s) = " " THEN StripLeft(Tail(s)) ELSE s

RECURSIVE StripRight(_)
StripRight(s) ==
    IF Len(s) > 0 /\ s[Len(s)] = " " THEN StripRight(SubSeq(s, 1, Len(s) - 1)) ELSE s

\* value of a run of decimal digits with single underscores between digits;
\* None when the text is not of that form
RECURSIVE DigitsValue(_, _, _)
DigitsValue(s, acc, prevDigit) ==
    IF Len(s) = 0 THEN (IF prevDigit THEN Some(acc) ELSE None)
    ELSE IF Head(s) = "_"
         THEN (IF prevDigit THEN DigitsValue(Tail(s), acc, FALSE) ELSE None)
         ELSE IF IndexIn(Digits, Head(s)) >= 0
              THEN DigitsValue(Tail(s), acc * 10 + IndexIn(Digits, Head(s)), TRUE)
              ELSE None

\* int(s): surrounding blanks, an optional sign, decimal digits;
\* None stands for ValueError
ParseInt(s) ==
    LET t == StripRight(StripLeft(s))
        signed == Len(t) > 0 /\ Head(t) \in {"+", "-"}
        body == IF signed THEN Tail(t) ELSE t
        v == DigitsValue(body, 0, FALSE)
    IN  IF v = None THEN None
        ELSE IF signed /\ Head(t) = "-" THEN Some(0 - v[1]) ELSE v

\* the k-th smallest member of a finite set of integers
KthSmallest(S, k) == CHOOSE p \in S : Cardinality({q \in S : q < p}) = k - 1

\* s.split(sep, maxsplit): the text is cut at its first maxsplit separators,
\* at every separator when maxsplit = -1
Split(s, sep, maxsplit) ==
    LET found == {i \in 1..Len(s) : s[i] = sep}
        cuts == IF maxsplit < 0 THEN Cardinality(found)
                ELSE Min(maxsplit, Cardinality(found))
        cut(j) == KthSmallest(found, j)
    IN  [j \in 1..(cuts + 1) |->
            SubSeq(s, IF j = 1 THEN 1 ELSE cut(j - 1) + 1,
                      IF j = cuts + 1 THEN Len(s) ELSE cut(j) - 1)]

\* ''.join(parts)
RECURSIVE Join(_)
Join(parts) ==
    IF Len(parts) = 0 THEN <<>> ELSE Head(parts) \o Join(Tail(parts))

\* base64.b64encode: three bytes to four characters, '=' padding
B64Encode(bytes) ==
    LET n == Len(bytes)
        byte(j) == IF j <= n THEN bytes[j] ELSE 0
    IN  [i \in 1..(4 * ((n + 2) \div 3)) |->
            LET k == 3 * ((i - 1) \div 4)
                p == (i - 1) % 4
            IN  IF p = 0 THEN B64Alphabet[(byte(k + 1) \div 4) + 1]
                ELSE IF p = 1
                     THEN B64Alphabet[((byte(k + 1) % 4) * 16
                                       + byte(k + 2) \div 16) + 1]
                ELSE IF p = 2
                     THEN IF k + 2 > n THEN "="
                          ELSE B64Alphabet[((byte(k + 2) % 16) * 4
                                            + byte(k + 3) \div 64) + 1]
                ELSE IF k + 3 > n THEN "="
                     ELSE B64Alphabet[(byte(k + 3) % 64) + 1]]

\* a character of the base64 alphabet
IsB64(c) == IndexIn(B64Alphabet, c) >= 0

\* binascii.a2b_base64 reads the text left to right: quad_pos is the number
\* of alphabet characters read so far mod 4, pads the number of '=' read
\* since the last alphabet character
QuadPos(s, i) == Len(SelectSeq(SubSeq(s, 1, i - 1), IsB64)) % 4

Pads(s, i) ==
    LET before == {j \in 1..(i - 1) : IsB64(s[j])}
        last == IF before = {} THEN 0
                ELSE CHOOSE j \in before : \A q \in before : q <= j
    IN  Cardinality({j \in (last + 1)..i : s[j] = "="})

\* the '=' that completes the padding of a group ends the decoding
PaddingComplete(s, i) ==
    /\ s[i] = "="
    /\ QuadPos(s, i) >= 2
    /\ QuadPos(s, i) + Pads(s, i) >= 4

\* base64.b64decode (binascii.a2b_base64, not strict): characters outside the
\* alphabet are skipped, decoding stops at complete padding, and a dangling
\* group is binascii.Error, here None
B64Decode(s) ==
    LET stops == {i \in 1..Len(s) : PaddingComplete(s, i)}
        read == IF stops = {} THEN s
                ELSE SubSeq(s, 1, (CHOOSE i \in stops : \A q \in stops : i <= q) - 1)
        sextets == SelectSeq(read, IsB64)
        m == Len(sextets)
        d(j) == IndexIn(B64Alphabet, sextets[j])
        tail == IF m % 4 = 2 THEN 1 ELSE IF m % 4 = 3 THEN 2 ELSE 0
    IN  IF stops = {} /\ m % 4 # 0 THEN None
        ELSE Some([j \in 1..(3 * (m \div 4) + tail) |->
                 LET k == 4 * ((j - 1) \div 3)
                     r == (j - 1) % 3
                 IN  IF r = 0 THEN d(k + 1) * 4 + d(k + 2) \div 16
                     ELSE IF r = 1 THEN (d(k + 2) % 16) * 16 + d(k + 3) \div 4
                     ELSE (d(k + 3) % 4) * 64 + d(k + 4)])

\* ------------------------------------------------------------------------
\* chunking.py: QRChunker
\* ------------------------------------------------------------------------

\* QRChunker.__init__: the fragment capacity left after the header allowance
MaxDataSize(max_chunk_size) == max_chunk_size - HEADER_OVERHEAD

\* the f-string "xIRS|{seq}/{total}|{data}"
ChunkString(seq, total, data) ==
    PROTOCOL_PREFIX \o <<CHUNK_SEPARATOR>> \o FormatInt(seq) \o <<"/">>
        \o FormatInt(total) \o <<CHUNK_SEPARATOR>> \o data

\* mutant: the chunk count by floor division, losing the last short fragment
ChunkTotalFloor(len, max_data_size) == len \div max_data_size

\* number of chunks chunk() emits when the text does not fit one chunk
ChunkTotal(len, max_data_size) == (len + max_data_size - 1) \div max_data_size

\* a Python slice bound on a text of length len: a negative bound counts
\* from the end, and either is clamped to 0..len
SliceBound(bound, len) ==
    IF bound < 0 THEN (IF bound + len < 0 THEN 0 ELSE bound + len)
    ELSE Min(bound, len)

\* payload_b64[start:end] of chunk i (0-based), Python slice semantics
Fragment(payload_b64, i, max_data_size) ==
    SubSeq(payload_b64,
           SliceBound(i * max_data_size, Len(payload_b64)) + 1,
           SliceBound(i * max_data_size + max_data_size, Len(payload_b64)))

\* chunk() leaves by ZeroDivisionError: the text does not fit and the
\* chunk count is a division by max_data_size = 0
ChunkRaises(bytes, max_chunk_size) ==
    /\ Len(B64Encode(bytes)) > MaxDataSize(max_chunk_size)
    /\ MaxDataSize(max_chunk_size) = 0

\* QRChunker.chunk on a bytes payload, when it returns; range(total) is
\* empty for total <= 0
Chunk(bytes, max_chunk_size) ==
    LET payload_b64 == B64Encode(bytes)
        max_data_size == MaxDataSize(max_chunk_size)
        total == ChunkTotal(Len(payload_b64), max_data_size)
    IN  IF Len(payload_b64) <= max_data_size
        THEN <<ChunkString(1, 1, payload_b64)>>
        ELSE [i \in 1..total |->
                 ChunkString(i, total, Fragment(payload_b64, i - 1, max_data_size))]

\* ------------------------------------------------------------------------
\* chunking.py: parse_chunk
\* ------------------------------------------------------------------------

\* mutant: the upper bound of the sequence number is not checked
SequenceOutOfRangeNoUpper(sequence, total) == sequence < 1

\* mutant: the lower bound is off by one
SequenceOutOfRangeFromZero(sequence, total) == sequence < 0 \/ sequence > total

\* the check "sequence < 1 or sequence > total" of parse_chunk
SequenceOutOfRange(sequence, total) == sequence < 1 \/ sequence > total

\* parse_chunk: Some(ChunkInfo) or None
ParseChunk(chunk_str) ==
    LET parts == Split(chunk_str, CHUNK_SEPARATOR, 2) IN
    IF Len(parts) # 3 THEN None
    ELSE IF parts[1] # PROTOCOL_PREFIX THEN None
    ELSE LET seq_parts == Split(parts[2], "/", -1) IN
         IF Len(seq_parts) # 2 THEN None
         ELSE LET sequence == ParseInt(seq_parts[1])
                  total == ParseInt(seq_parts[2])
              IN  IF sequence = None \/ total = None THEN None
                  ELSE IF SequenceOutOfRange(sequence[1], total[1]) THEN None
                  ELSE Some([sequence |-> sequence[1], total |-> total[1],
                             data |-> parts[3]])

\* ------------------------------------------------------------------------
\* chunking.py: QRReassembler
\* ------------------------------------------------------------------------

\* an exception leaving add_chunk or get_payload (out of _reassemble)
Raise == <<"exception", "raised">>

\* reset(): the state of a fresh reassembler
FreshReassembler == [chunks |-> <<>>, total |-> None, complete |-> FALSE]

\* mutant: fragments kept in arrival order, the sequence number ignored
StoreChunkAppend(chunks, sequence, data) ==
    [k \in (DOMAIN chunks) \cup {Cardinality(DOMAIN chunks) + 1} |->
        IF k = Cardinality(DOMAIN chunks) + 1 THEN data ELSE chunks[k]]

\* self._chunks[sequence] = data
StoreChunk(chunks, sequence, data) ==
    [k \in (DOMAIN chunks) \cup {sequence} |->
        IF k = sequence THEN data ELSE chunks[k]]

\* _reassemble: the fragments 1..total joined and base64-decoded; a missing
\* key (KeyError) or undecodable text (binascii.Error) leaves as an exception
Reassemble(chunks, total) ==
    IF \E i \in 1..total : i \notin DOMAIN chunks THEN Raise
    ELSE LET decoded == B64Decode(Join([i \in 1..total |-> chunks[i]])) IN
         IF decoded = None THEN Raise ELSE decoded

\* mutant: a chunk of another total is taken as one of this transfer
TotalMismatchIgnored(known_total, chunk_total) == FALSE

\* the test "self._total != info.total" once a total is known
TotalMismatch(known_total, chunk_total) == known_total # chunk_total

\* the test "len(self._chunks) == self._total"
AllReceived(chunks, total) == Cardinality(DOMAIN chunks) = total

\* mutant: add_chunk without the early return of a complete reassembler
AddChunkReopens(r, chunk_str) ==
    LET info == ParseChunk(chunk_str) IN
    IF info = None THEN r @@ [result |-> None]
    ELSE IF r.total # None /\ TotalMismatch(r.total[1], info[1].total)
         THEN r @@ [result |-> None]
    ELSE LET stored == StoreChunk(r.chunks, info[1].sequence, info[1].data)
             total == IF r.total = None THEN info[1].total ELSE r.total[1]
         IN
         IF AllReceived(stored, total)
         THEN [chunks |-> stored, total |-> Some(total), complete |-> TRUE,
               result |-> Reassemble(stored, total)]
         ELSE [chunks |-> stored, total |-> Some(total), complete |-> FALSE,
               result |-> None]

\* add_chunk: the reassembler after the call, with the call's result
AddChunk(r, chunk_str) ==
    LET info == ParseChunk(chunk_str) IN
    IF r.complete THEN r @@ [result |-> None]
    ELSE IF info = None THEN r @@ [result |-> None]
    ELSE IF r.total # None /\ TotalMismatch(r.total[1], info[1].total)
         THEN r @@ [result |-> None]
    ELSE LET stored == StoreChunk(r.chunks, info[1].sequence, info[1].data)
             total == IF r.total = None THEN info[1].total ELSE r.total[1]
         IN
         IF AllReceived(stored, total)
         THEN [chunks |-> stored, total |-> Some(total), complete |-> TRUE,
               result |-> Reassemble(stored, total)]
         ELSE [chunks |-> stored, total |-> Some(total), complete |-> FALSE,
               result |-> None]

\* get_payload
GetPayload(r) == IF r.complete THEN Reassemble(r.chunks, r.total[1]) ELSE None

\* the properties is_complete, progress and missing_sequences
IsComplete(r) == r.complete

Progress(r) ==
    IF r.total = None THEN <<Cardinality(DOMAIN r.chunks), 0>>
    ELSE <<Cardinality(DOMAIN r.chunks), r.total[1]>>

\* sorted(set): the ascending list of the members of a finite set of integers
RECURSIVE Sorted(_)
Sorted(S) ==
    IF S = {} THEN <<>>
    ELSE LET m == CHOOSE x \in S : \A y \in S : x <= y
         IN <<m>> \o Sorted(S \ {m})

MissingSequences(r) ==
    IF r.total = None THEN <<>>
    ELSE Sorted((1..r.total[1]) \ DOMAIN r.chunks)

\* ------------------------------------------------------------------------
\* Inputs of the chunking specification
\* ------------------------------------------------------------------------

\* the bytes (a + b*i) mod 256 for i = 1..n
PatternBytes(a, b, n) == [i \in 1..n |-> (a + b * i) % 256]

\* all-0xFF payloads encode to '/' characters only; the second pattern varies
PayloadPatterns == {<<255, 0>>, <<7, 13>>}

\* short payloads, and lengths around those whose base64 text fills one and
\* two fragments of the smallest chunk size (33 and 66 bytes)
PayloadLengths ==
    {n \in 0..MaxPayloadLen : n <= 3 \/ n % 33 <= 1 \/ n = MaxPayloadLen}

Payloads == {PatternBytes(p[1], p[2], n) : p \in PayloadPatterns, n \in PayloadLengths}

ChunkSizes == (MinChunkSize..(MinChunkSize + ChunkSizeSpread)) \cup {MAX_CHUNK_SIZE}

\* every max_chunk_size QRChunker.__init__ takes unchecked, from 0 on
FrameSizes == (0..MaxSmallChunkSize) \cup ChunkSizes

QUJD == <<"Q", "U", "J", "D">>

\* strings parse_chunk rejects
BadTag == <<"X", "I", "R", "S", "|", "1", "/", "2", "|">> \o QUJD

TwoParts == <<"x", "I", "R", "S", "|", "1", "/", "2">>

NoSlash == <<"x", "I", "R", "S", "|", "1", "2", "|">> \o QUJD

ThreeSeqParts == <<"x", "I", "R", "S", "|", "1", "/", "2", "/", "3", "|">> \o QUJD

NonIntSequence == <<"x", "I", "R", "S", "|", "a", "/", "2", "|">> \o QUJD

NonIntTotal == <<"x", "I", "R", "S", "|", "1", "/", "b", "|">> \o QUJD

SequenceZero == <<"x", "I", "R", "S", "|", "0", "/", "2", "|">> \o QUJD

SequenceNegative == <<"x", "I", "R", "S", "|", "-", "1", "/", "2", "|">> \o QUJD

SequenceAboveTotal == <<"x", "I", "R", "S", "|", "3", "/", "2", "|">> \o QUJD

EmptyText == <<>>

MalformedChunks ==
    { BadTag, TwoParts, NoSlash, ThreeSeqParts, NonIntSequence, NonIntTotal,
      SequenceZero, SequenceNegative, SequenceAboveTotal, EmptyText }

\* well-formed chunks of other transfers, as <<sequence, total, fragment>>;
\* the last one carries text that does not decode
ForeignTriples ==
    { <<1, 2, QUJD>>, <<2, 2, <<"R", "A", "=", "=">> >>, <<1, 4, QUJD>>,
      <<1, 1, <<"Q">> >> }

\* a chunk whose numbers are spelled as int() also accepts them
SpelledChunk == <<"x", "I", "R", "S", "|", " ", "1", "/", "+", "2", "|">> \o QUJD

ForeignChunks ==
    {ChunkString(t[1], t[2], t[3]) : t \in ForeignTriples} \cup {SpelledChunk}

\* ------------------------------------------------------------------------
\* Hub database (backend/database.py) and the values of the ingestion
\* endpoint (backend/routes/logistics.py)
\*
\* A table is a function from its key to the row, logistics_audit a bag of
\* rows.  A JSON object is a record that has exactly the keys present, a JSON
\* number n is [num |-> n] and a JSON string s is [str |-> s], s a text as
\* everywhere in this module, where the two have to be told apart (qty).
\* An HMAC tag and a sealed box are kept
\* symbolic: the tag names its key and the data it covers, the box names the
\* public key it was sealed for.
\* ------------------------------------------------------------------------

\* Hub processes sharing one database file (get_connection, file mode)
Hubs == {"hub-a", "hub-b"}

\* dict.get(key, default)
GetOr(dict, key, default) == IF key \in DOMAIN dict THEN dict[key] ELSE default

\* the Hub's encryption keypair as get_or_create_hub_keys returns it
HubKeys ==
    [encryption_private |-> "hub-x25519-private",
     encryption_public |-> "hub-x25519-public"]

\* generate_station_secret(): a random secret of its own for every station
GenerateStationSecret(station_id) == [secret_of |-> station_id]

\* compute_hmac(secret, data): HMAC-SHA256 of the canonical JSON of data
ComputeHmac(secret, data) == [hmac_key |-> secret, hmac_data |-> data]

\* signable = {k: v for k, v in report.items() if k != 'hmac'}
Signable(report) == [k \in (DOMAIN report) \ {"hmac"} |-> report[k]]

\* SealedBox.encrypt for a recipient's public key
SealedBoxEncrypt(public_key, plain) == [sealed_for |-> public_key, plain |-> plain]

\* SealedBox.decrypt with the Hub's private key; None stands for the
\* exception of a box that does not open
SealedBoxDecrypt(keys, box) ==
    IF box.sealed_for = keys.encryption_public THEN Some(box.plain) ELSE None

\* json.loads(payload_bytes.decode('utf-8')); None stands for the exception
JsonLoads(plain) == IF "json" \in DOMAIN plain THEN Some(plain.json) ELSE None

\* hashlib.sha256(json.dumps(report, sort_keys=True)).hexdigest()
PayloadHash(report) == [sha256_of |-> report]

\* a row of logistics_audit
AuditRow(event_type, station_id, packet_id, manifest_id) ==
    [event_type |-> event_type, station_id |-> station_id,
     packet_id |-> packet_id, manifest_id |-> manifest_id]

\* log_audit(conn, event_type, station_id, packet_id, manifest_id)
LogAudit(conn, event_type, station_id, packet_id, manifest_id) ==
    [conn EXCEPT !.logistics_audit =
        @ (+) SetToBag({AuditRow(event_type, station_id, packet_id, manifest_id)})]

\* logistics_manifests is keyed by manifest_id: a second row for a
\* manifest_id is refused
ManifestIdTaken(logistics_manifests, manifest_id) ==
    manifest_id \in DOMAIN logistics_manifests

\* the column defaults of a row of logistics_stations
StationDefaults == [is_active |-> 1, last_seq_id |-> 0]

\* seen_packets is a set of packet ids: a second row for a packet_id is refused
SeenPacketsKeyTaken(seen_packets, packet_id) == packet_id \in DOMAIN seen_packets

\* the outcome of statements run on a connection: the connection as the
\* statements left it, and whether an exception is on its way out
Done(conn) == [conn |-> conn, raised |-> FALSE]

Raised(conn) == [conn |-> conn, raised |-> TRUE]

\* mutant: the row of an already recorded packet_id is replaced silently
InsertSeenPacketOrReplace(conn, packet_id, station_id, payload_hash) ==
    Done([conn EXCEPT !.seen_packets =
        [k \in (DOMAIN @) \cup {packet_id} |->
            IF k = packet_id
            THEN [station_id |-> station_id, payload_hash |-> payload_hash]
            ELSE @[k]]])

\* INSERT INTO seen_packets (packet_id, station_id, payload_hash);
\* sqlite3.IntegrityError when the key is taken
InsertSeenPacket(conn, packet_id, station_id, payload_hash) ==
    IF SeenPacketsKeyTaken(conn.seen_packets, packet_id) THEN Raised(conn)
    ELSE Done([conn EXCEPT !.seen_packets =
             [k \in (DOMAIN @) \cup {packet_id} |->
                 IF k = packet_id
                 THEN [station_id |-> station_id, payload_hash |-> payload_hash]
                 ELSE @[k]]])

\* mutant: the marker is set to the seq_id of the packet
SqlMaxLast(a, b) == b

\* SQL scalar MAX(a, b)
SqlMax(a, b) == IF a >= b THEN a ELSE b

\* UPDATE logistics_stations SET last_seq_id = MAX(last_seq_id, ?)
\* WHERE station_id = ?
UpdateStationSync(conn, station_id, seq_id) ==
    IF station_id \in DOMAIN conn.logistics_stations
    THEN [conn EXCEPT !.logistics_stations[station_id].last_seq_id = SqlMax(@, seq_id)]
    ELSE conn

\* mutant: the UPDATE without its WHERE clause
AcknowledgeManifestAll(conn, manifest_id) ==
    [conn EXCEPT !.logistics_manifests =
        [m \in DOMAIN @ |-> [@[m] EXCEPT !.status = "ACKNOWLEDGED"]]]

\* UPDATE logistics_manifests SET status = 'ACKNOWLEDGED' WHERE manifest_id = ?
AcknowledgeManifest(conn, manifest_id) ==
    IF manifest_id \in DOMAIN conn.logistics_manifests
    THEN [conn EXCEPT !.logistics_manifests[manifest_id].status = "ACKNOWLEDGED"]
    ELSE conn

\* the integer SQLite reads off the front of a text: a sign, then digits
RECURSIVE LeadingDigits(_, _)
LeadingDigits(s, acc) ==
    IF Len(s) = 0 \/ IndexIn(Digits, Head(s)) < 0 THEN acc
    ELSE LeadingDigits(Tail(s), acc * 10 + IndexIn(Digits, Head(s)))

\* the number SQLite adds in "quantity + ?": a bound number as it is, a
\* bound text by the integer at its front, 0 without one
SqlNumeric(value) ==
    IF "num" \in DOMAIN value THEN value.num
    ELSE LET t == StripLeft(value.str) IN
         IF Len(t) > 0 /\ Head(t) = "-" THEN 0 - LeadingDigits(Tail(t), 0)
         ELSE IF Len(t) > 0 /\ Head(t) = "+" THEN LeadingDigits(Tail(t), 0)
         ELSE LeadingDigits(t, 0)

\* inventory.quantity takes any integer: no constraint of the column is stated
QuantityRefused(quantity) == FALSE

\* one pass of the loop "for action in actions"; the TypeError of
\* "inv_row['quantity'] - qty" on a qty that is no number leaves the loop
ApplyAction(conn, action, station_id, packet_id) ==
    LET action_type == GetOr(action, "type", "None")
        item_code == GetOr(action, "item_code", "")
        qty == GetOr(action, "qty", [num |-> 0])
        manifest_id == GetOr(action, "manifest_id", "")
        in_stock == item_code \in DOMAIN conn.inventory
        acked == IF action_type = "RECEIVE" /\ manifest_id # ""
                 THEN AcknowledgeManifest(conn, manifest_id) ELSE conn
        applied ==
            IF action_type = "RECEIVE" /\ in_stock
            THEN [acked EXCEPT !.inventory[item_code] = @ + SqlNumeric(qty)]
            ELSE IF action_type = "DISPENSE" /\ in_stock
            THEN [acked EXCEPT !.inventory[item_code] =
                     IF @ - qty.num >= 0 THEN @ - qty.num ELSE 0]
            ELSE acked
    IN  IF \/ action_type = "DISPENSE" /\ in_stock /\ "num" \notin DOMAIN qty
           \/ in_stock /\ QuantityRefused(applied.inventory[item_code])
        THEN Raised(conn)
        ELSE Done(LogAudit(applied, "ACTION_" \o action_type, station_id,
                           packet_id, ""))

\* the loop over the actions from the i-th on
RECURSIVE ApplyActions(_, _, _, _, _)
ApplyActions(conn, actions, i, station_id, packet_id) ==
    IF i > Len(actions) THEN Done(conn)
    ELSE LET after == ApplyAction(conn, actions[i], station_id, packet_id) IN
         IF after.raised THEN after
         ELSE ApplyActions(after.conn, actions, i + 1, station_id, packet_id)

\* mutant: the connection is committed whether or not the block raised
GetDbCommitAlways(committed, conn, raised) == conn

\* get_db(): commit when the block returns, rollback when it raises
GetDb(committed, conn, raised) == IF raised THEN committed ELSE conn

\* mutant: the look-up finds no row
SeenPacketNever(conn, packet_id) == FALSE

\* SELECT packet_id FROM seen_packets WHERE packet_id = ?, fetchone()
SeenPacket(conn, packet_id) == packet_id \in DOMAIN conn.seen_packets

\* mutant: every tag is taken as the expected one
CompareDigestAny(expected, given) == TRUE

\* hmac.compare_digest(expected_hmac, hmac_value) on two strings
CompareDigest(expected, given) == expected = given

\* raise HTTPException(status_code)
HttpError(status_code) == [status_code |-> status_code]

\* IngestPacketResponse(success=True, ..., is_duplicate)
IngestPacketResponse(report, is_duplicate) ==
    [status_code |-> 200, success |-> TRUE, is_duplicate |-> is_duplicate,
     packet_id |-> report.packet_id, station_id |-> report.station_id,
     actions_count |-> Len(GetOr(report, "actions", <<>>))]

\* how the first part of ingest_packet ends: an exception, a return, or on
\* to the INSERT
\* JSON null, Python's None as a value of a dict
JsonNull == [json_null |-> TRUE]

\* the value is a Python str
IsStr(value) == "hmac_key" \in DOMAIN value \/ "str" \in DOMAIN value

\* base64.b64decode(secret_b64) in compute_hmac succeeds
SecretDecodes(secret) ==
    IF "text" \in DOMAIN secret THEN B64Decode(secret.text) # None ELSE TRUE

\* mutant: the station row is selected whatever its is_active
SelectStationAnyState(conn, station_id) ==
    station_id \in DOMAIN conn.logistics_stations

\* SELECT station_secret FROM logistics_stations
\* WHERE station_id = ? AND is_active = 1: a row was found
SelectActiveStation(conn, station_id) ==
    /\ station_id \in DOMAIN conn.logistics_stations
    /\ conn.logistics_stations[station_id].is_active = 1

Reject(conn, status_code) ==
    [conn |-> conn, raised |-> TRUE, proceed |-> FALSE,
     response |-> HttpError(status_code)]

Return(conn, response) ==
    [conn |-> conn, raised |-> FALSE, proceed |-> FALSE, response |-> response]

Proceed(conn) ==
    [conn |-> conn, raised |-> FALSE, proceed |-> TRUE, response |-> None]

\* mutant: seen_packets is looked into before the station and the HMAC
IngestCheckSeenFirst(conn, envelope) ==
    LET opened == IF "payload" \in DOMAIN envelope
                  THEN SealedBoxDecrypt(HubKeys, envelope.payload) ELSE None
        loaded == IF opened = None THEN None ELSE JsonLoads(opened[1])
    IN
    IF loaded = None
    THEN Reject(LogAudit(conn, "INGEST_DECRYPT_FAILED", "", "", ""), 400)
    ELSE
    LET report == loaded[1]
        packet_id == GetOr(report, "packet_id", "")
        station_id == GetOr(report, "station_id", "")
        registered == SelectActiveStation(conn, station_id)
    IN
    IF packet_id = "" \/ station_id = "" THEN Reject(conn, 400)
    ELSE IF SeenPacket(conn, packet_id)
    THEN Return(LogAudit(conn, "INGEST_DUPLICATE", station_id, packet_id, ""),
                IngestPacketResponse(report, TRUE))
    ELSE IF ~registered
    THEN Reject(LogAudit(conn, "INGEST_UNKNOWN_STATION", station_id, packet_id, ""), 404)
    ELSE IF \/ ~SecretDecodes(conn.logistics_stations[station_id].station_secret)
            \/ "hmac" \notin DOMAIN report
            \/ ~IsStr(report.hmac)
    THEN Reject(conn, 500)
    ELSE IF ~CompareDigest(
                ComputeHmac(conn.logistics_stations[station_id].station_secret,
                            Signable(report)),
                report.hmac)
    THEN Reject(LogAudit(conn, "INGEST_HMAC_FAILED", station_id, packet_id, ""), 401)
    ELSE Proceed(conn)

\* ingest_packet inside write_db, from the decryption to the look-up in
\* seen_packets
IngestCheck(conn, envelope) ==
    LET opened == IF "payload" \in DOMAIN envelope
                  THEN SealedBoxDecrypt(HubKeys, envelope.payload) ELSE None
        loaded == IF opened = None THEN None ELSE JsonLoads(opened[1])
    IN
    IF loaded = None
    THEN Reject(LogAudit(conn, "INGEST_DECRYPT_FAILED", "", "", ""), 400)
    ELSE
    LET report == loaded[1]
        packet_id == GetOr(report, "packet_id", "")
        station_id == GetOr(report, "station_id", "")
        registered == SelectActiveStation(conn, station_id)
    IN
    IF packet_id = "" \/ station_id = "" THEN Reject(conn, 400)
    ELSE IF ~registered
    THEN Reject(LogAudit(conn, "INGEST_UNKNOWN_STATION", station_id, packet_id, ""), 404)
    ELSE IF \/ ~SecretDecodes(conn.logistics_stations[station_id].station_secret)
            \/ "hmac" \notin DOMAIN report
            \/ ~IsStr(report.hmac)
    THEN Reject(conn, 500)
    ELSE IF ~CompareDigest(
                ComputeHmac(conn.logistics_stations[station_id].station_secret,
                            Signable(report)),
                report.hmac)
    THEN Reject(LogAudit(conn, "INGEST_HMAC_FAILED", station_id, packet_id, ""), 401)
    ELSE IF SeenPacket(conn, packet_id)
    THEN Return(LogAudit(conn, "INGEST_DUPLICATE", station_id, packet_id, ""),
                IngestPacketResponse(report, TRUE))
    ELSE Proceed(conn)

\* the report of an envelope that passed IngestCheck
ReportOf(envelope) == envelope.payload.plain.json

\* ingest_packet from the INSERT into seen_packets to its return
IngestRecord(conn, report) ==
    LET packet_id == report.packet_id
        station_id == report.station_id
        recorded == InsertSeenPacket(conn, packet_id, station_id, PayloadHash(report))
    IN
    IF recorded.raised THEN recorded
    ELSE
    LET synced == UpdateStationSync(recorded.conn, station_id,
                                    GetOr(report, "seq_id", 0))
        applied == ApplyActions(synced, GetOr(report, "actions", <<>>), 1,
                                station_id, packet_id)
    IN  IF applied.raised THEN applied
        ELSE Done(LogAudit(applied.conn, "INGEST_SUCCESS", station_id, packet_id, ""))

\* ------------------------------------------------------------------------
\* Inputs of the ingestion specifications
\* ------------------------------------------------------------------------

StationIds == {"STATION-PARK", "STATION-GATE"}

ManifestIds == {"MF-1", "MF-2"}

\* inventory as the seeder leaves it: the generators, quantity 2
SeededInventory == [name \in {"generator"} |-> 2]

\* a secret no station was given
AttackerSecret == [secret_of |-> "nobody"]

\* ReportBuilder.create_report: the HMAC over the report attached to it
SignedReport(secret, fields) == fields @@ [hmac |-> ComputeHmac(secret, fields)]

\* ReportBuilder.encrypt_report: the envelope that crosses the carrier
EncryptReport(plain) ==
    [type |-> "ENCRYPTED_REPORT",
     payload |-> SealedBoxEncrypt(HubKeys.encryption_public, plain),
     compressed |-> TRUE]

\* a manifest acknowledgement: one RECEIVE that names the manifest
AckReport ==
    SignedReport(GenerateStationSecret("STATION-PARK"),
        [packet_id |-> "PKT-1", station_id |-> "STATION-PARK", seq_id |-> 1,
         actions |-> << [type |-> "RECEIVE", item_code |-> "generator",
                         qty |-> [num |-> 1], manifest_id |-> "MF-1"] >>])

\* more dispensed than is in stock, and an item the inventory does not list
DispenseReport ==
    SignedReport(GenerateStationSecret("STATION-PARK"),
        [packet_id |-> "PKT-2", station_id |-> "STATION-PARK", seq_id |-> 2,
         actions |-> << [type |-> "DISPENSE", item_code |-> "generator",
                         qty |-> [num |-> 3]],
                        [type |-> "RECEIVE", item_code |-> "tent",
                         qty |-> [num |-> 1]] >>])

\* a report of the other station, whose RECEIVE names the manifest that was
\* made out to STATION-PARK
GateReport ==
    SignedReport(GenerateStationSecret("STATION-GATE"),
        [packet_id |-> "PKT-4", station_id |-> "STATION-GATE", seq_id |-> 1,
         actions |-> << [type |-> "RECEIVE", item_code |-> "generator",
                         qty |-> [num |-> 1], manifest_id |-> "MF-1"] >>])

\* an item the inventory does not list, then one it lists
MixedReport ==
    SignedReport(GenerateStationSecret("STATION-PARK"),
        [packet_id |-> "PKT-7", station_id |-> "STATION-PARK", seq_id |-> 5,
         actions |-> << [type |-> "RECEIVE", item_code |-> "tent",
                         qty |-> [num |-> 1]],
                        [type |-> "RECEIVE", item_code |-> "generator",
                         qty |-> [num |-> 1]] >>])

\* a report of the other station under the packet_id of the acknowledgement,
\* with another seq_id and a RECEIVE of a negative quantity
ReusedIdReport ==
    SignedReport(GenerateStationSecret("STATION-GATE"),
        [packet_id |-> "PKT-1", station_id |-> "STATION-GATE", seq_id |-> 7,
         actions |-> << [type |-> "RECEIVE", item_code |-> "generator",
                         qty |-> [num |-> 0 - 5]] >>])

\* the second action carries its quantity as JSON text
TextQtyReport ==
    SignedReport(GenerateStationSecret("STATION-PARK"),
        [packet_id |-> "PKT-3", station_id |-> "STATION-PARK", seq_id |-> 3,
         actions |-> << [type |-> "RECEIVE", item_code |-> "generator",
                         qty |-> [num |-> 1]],
                        [type |-> "DISPENSE", item_code |-> "generator",
                         qty |-> [str |-> <<"1">>]] >>])

\* the acknowledgement with its quantity changed under the old tag
TamperedReport ==
    [AckReport EXCEPT !.actions =
        << [type |-> "RECEIVE", item_code |-> "generator",
            qty |-> [num |-> 9], manifest_id |-> "MF-1"] >>]

\* a report without the hmac field
NoHmacReport == Signable([DispenseReport EXCEPT !.packet_id = "PKT-5"])

\* a report without packet_id
NoPacketIdReport ==
    SignedReport(GenerateStationSecret("STATION-PARK"),
        [station_id |-> "STATION-PARK", seq_id |-> 4, actions |-> <<>>])

\* a report in the name of a station that was never provisioned
UnknownStationReport ==
    SignedReport(AttackerSecret,
        [packet_id |-> "PKT-6", station_id |-> "STATION-X", seq_id |-> 1,
         actions |-> << [type |-> "RECEIVE", item_code |-> "generator",
                         qty |-> [num |-> 9]] >>])

\* the envelopes the Hub is sent, by name
EnvelopeOf ==
    [ack |-> EncryptReport([json |-> AckReport]),
     dispense |-> EncryptReport([json |-> DispenseReport]),
     gate |-> EncryptReport([json |-> GateReport]),
     mixed |-> EncryptReport([json |-> MixedReport]),
     reused_id |-> EncryptReport([json |-> ReusedIdReport]),
     text_qty |-> EncryptReport([json |-> TextQtyReport]),
     wrong_type |->
        [EncryptReport([json |-> AckReport]) EXCEPT !.type = "RESTOCK_MANIFEST"],
     undecryptable |->
        [EncryptReport([json |-> AckReport])
            EXCEPT !.payload.sealed_for = "other-x25519-public"],
     not_json |-> EncryptReport([text |-> "xIRS"]),
     tampered |-> EncryptReport([json |-> TamperedReport]),
     no_hmac |-> EncryptReport([json |-> NoHmacReport]),
     no_packet_id |-> EncryptReport([json |-> NoPacketIdReport]),
     unknown_station |-> EncryptReport([json |-> UnknownStationReport])]

Envelopes == DOMAIN EnvelopeOf

\* the envelopes whose report has a packet_id no other station's report has
OwnIdEnvelopes == Envelopes \ {"reused_id"}

\* envelopes of reports as ReportBuilder makes them, rightly tagged
AuthenticEnvelopes == {"ack", "dispense", "gate", "mixed"}

\* the station secrets handed out so far
SecretsIssued(conn) ==
    {conn.logistics_stations[s].station_secret : s \in DOMAIN conn.logistics_stations}

\* an envelope somebody can have built: a tag under a station's secret needs
\* that secret, which provision_station hands out
CanBeSent(conn, envelope) ==
    LET plain == envelope.payload.plain IN
    IF "json" \notin DOMAIN plain THEN TRUE
    ELSE IF "hmac" \notin DOMAIN plain.json THEN TRUE
    ELSE plain.json.hmac.hmac_key \in SecretsIssued(conn) \cup {AttackerSecret}

\* ------------------------------------------------------------------------
\* hmac.py: verify_hmac, verify_report_hmac, HubVerifier
\* report.py: ReportDecryptor
\*
\* A registry maps station_id to the registered secret.  A secret is either
\* one generate_station_secret made, kept symbolic, or [text |-> s] for a
\* text s somebody registered.  The value of a report's hmac field is a tag
\* (a str), [str |-> s] for another str, [num |-> n] or JSON null.  The
\* outcome of a call is the value returned or the exception raised.
\* ------------------------------------------------------------------------

Returns(value) == [returned |-> value]

Raises(exception) == [raised |-> exception]

\* Python's "not value" for a value looked up with dict.get
Falsy(value) ==
    \/ value = JsonNull
    \/ ("str" \in DOMAIN value /\ value.str = <<>>)
    \/ ("text" \in DOMAIN value /\ value.text = <<>>)
    \/ ("num" \in DOMAIN value /\ value.num = 0)

\* verify_hmac(secret_b64, data, hmac_b64): compute_hmac raises
\* binascii.Error on a secret that does not decode, hmac.compare_digest
\* raises TypeError on a value that is no str
VerifyHmac(secret, data, hmac_b64) ==
    IF ~SecretDecodes(secret) THEN Raises("binascii.Error")
    ELSE IF ~IsStr(hmac_b64) THEN Raises("TypeError")
    ELSE Returns(CompareDigest(ComputeHmac(secret, data), hmac_b64))

\* verify_report_hmac(secret_b64, report)
VerifyReportHmac(secret, report) ==
    IF "hmac" \notin DOMAIN report THEN Returns(FALSE)
    ELSE VerifyHmac(secret, Signable(report), report.hmac)

\* mutant: the secret of some registered station, whichever was asked for
LookupSecretAny(registry, station_id) ==
    IF registry = <<>> THEN JsonNull
    ELSE registry[CHOOSE s \in DOMAIN registry : TRUE]

\* self._secrets.get(station_id)
LookupSecret(registry, station_id) ==
    IF station_id \in DOMAIN registry THEN registry[station_id] ELSE JsonNull

\* HubVerifier.verify_report(report)
HubVerifierVerifyReport(registry, report) ==
    LET station_id == GetOr(report, "station_id", "")
        secret == LookupSecret(registry, station_id)
    IN  IF station_id = "" THEN Returns(FALSE)
        ELSE IF Falsy(secret) THEN Returns(FALSE)
        ELSE VerifyReportHmac(secret, report)

\* mutant: a report without an hmac value passes
DecryptorVerifyReportUntagged(registry, report) ==
    LET station_id == GetOr(report, "station_id", "")
        secret == LookupSecret(registry, station_id)
        hmac_value == GetOr(report, "hmac", JsonNull)
    IN  IF station_id = "" THEN Returns(FALSE)
        ELSE IF Falsy(secret) THEN Returns(FALSE)
        ELSE IF Falsy(hmac_value) THEN Returns(TRUE)
        ELSE IF ~SecretDecodes(secret) THEN Raises("binascii.Error")
        ELSE IF ~IsStr(hmac_value) THEN Raises("TypeError")
        ELSE Returns(CompareDigest(ComputeHmac(secret, Signable(report)), hmac_value))

\* ReportDecryptor.verify_report(report)
DecryptorVerifyReport(registry, report) ==
    LET station_id == GetOr(report, "station_id", "")
        secret == LookupSecret(registry, station_id)
        hmac_value == GetOr(report, "hmac", JsonNull)
    IN  IF station_id = "" THEN Returns(FALSE)
        ELSE IF Falsy(secret) THEN Returns(FALSE)
        ELSE IF Falsy(hmac_value) THEN Returns(FALSE)
        ELSE IF ~SecretDecodes(secret) THEN Raises("binascii.Error")
        ELSE IF ~IsStr(hmac_value) THEN Raises("TypeError")
        ELSE Returns(CompareDigest(ComputeHmac(secret, Signable(report)), hmac_value))

\* self._secrets[station_id] = secret_b64
RegisterStation(registry, station_id, secret) ==
    [s \in (DOMAIN registry) \cup {station_id} |->
        IF s = station_id THEN secret ELSE registry[s]]

\* SealedBox.decrypt_report(envelope): ValueError on another type, KeyError
\* without payload, CryptoError of the box, JSONDecodeError of json.loads
DecryptReport(keys, envelope) ==
    IF GetOr(envelope, "type", "") # "ENCRYPTED_REPORT" THEN Raises("ValueError")
    ELSE IF "payload" \notin DOMAIN envelope THEN Raises("KeyError")
    ELSE LET opened == SealedBoxDecrypt(keys, envelope.payload) IN
         IF opened = None THEN Raises("CryptoError")
         ELSE IF JsonLoads(opened[1]) = None THEN Raises("JSONDecodeError")
         ELSE Returns(JsonLoads(opened[1])[1])

\* mutant: the decrypted report is returned without verify_report
DecryptAndVerifyUnverified(registry, envelope) ==
    LET report == DecryptReport(HubKeys, envelope) IN
    IF "raised" \in DOMAIN report THEN report
    ELSE Returns(Some(report.returned))

\* ReportDecryptor.decrypt_and_verify(envelope): the report, or None
DecryptAndVerify(registry, envelope) ==
    LET report == DecryptReport(HubKeys, envelope) IN
    IF "raised" \in DOMAIN report THEN report
    ELSE LET verified == DecryptorVerifyReport(registry, report.returned) IN
         IF "raised" \in DOMAIN verified THEN verified
         ELSE IF verified.returned THEN Returns(Some(report.returned))
         ELSE Returns(None)

\* ------------------------------------------------------------------------
\* Inputs of the verifier specification
\* ------------------------------------------------------------------------

\* a registered text that is no base64: b64decode raises "Incorrect padding"
MalformedSecret == [text |-> <<"a", "b", "c">>]

\* secrets generate_station_secret can return
GeneratedSecrets == {GenerateStationSecret(s) : s \in StationIds}

\* secrets register_station is called with
SecretPool == GeneratedSecrets \cup {MalformedSecret}

\* the fields of a report but station_id and hmac: one DISPENSE of qty
ReportFields(qty) ==
    [packet_id |-> "RPT-001", seq_id |-> 1,
     actions |-> << [type |-> "DISPENSE", item_code |-> "WATER",
                     qty |-> [num |-> qty]] >>]

\* a report body in the name of a station, "" for none claimed
ReportBody(station_id, qty) ==
    IF station_id = "" THEN ReportFields(qty)
    ELSE ReportFields(qty) @@ [station_id |-> station_id]

\* the stations reports claim: a registered one, a never registered one, none
ClaimedStations == {"STATION-PARK", "STATION-X", ""}

\* hmac values that are no tag: null, a number, the empty and another str
OddHmacs ==
    {JsonNull, [num |-> 5], [str |-> <<>>], [str |-> <<"z", "z", "z">>]}

\* reports handed to verify_report: untagged, oddly tagged, tagged under a
\* generated or the attacker's secret, and tagged before qty was changed
VerifierReports ==
    {ReportBody(s, 5) : s \in ClaimedStations}
    \cup {ReportBody(s, 5) @@ [hmac |-> h] : s \in ClaimedStations, h \in OddHmacs}
    \cup {ReportBody(s, q) @@ [hmac |-> ComputeHmac(k, ReportBody(s, 5))] :
             s \in ClaimedStations, q \in {5, 9},
             k \in GeneratedSecrets \cup {AttackerSecret}}

\* envelopes handed to decrypt_and_verify: the reports sealed for the Hub,
\* and envelopes that do not decrypt to a report
VerifierEnvelopes ==
    {EncryptReport([json |-> r]) : r \in VerifierReports}
    \cup {[EncryptReport([json |-> ReportBody("STATION-PARK", 5)])
              EXCEPT !.type = "RESTOCK_MANIFEST"],
          [type |-> "ENCRYPTED_REPORT", compressed |-> TRUE],
          [EncryptReport([json |-> ReportBody("STATION-PARK", 5)])
              EXCEPT !.payload.sealed_for = "other-x25519-public"],
          [EncryptReport([json |-> ReportBody("STATION-PARK", 5)])
              EXCEPT !.payload.sealed_for = "nobody (ciphertext changed)"],
          EncryptReport([text |-> "xIRS"])}

\* ------------------------------------------------------------------------
\* signing.py: Ed25519Signer, Ed25519Verifier; manifest.py: ManifestBuilder
\*
\* A key of a generated keypair is kept symbolic; [text |-> s] is a text s
\* handed over as a key.  The canonical JSON of a dict (sort_keys) is
\* represented by the dict, a record having no key order.  Ed25519 is a
\* deterministic signature: the 64 bytes it makes are modelled by a pattern
\* that differs for every key and every message signed, and no other bytes
\* verify.  A signature travels as its base64 text.
\* ------------------------------------------------------------------------

\* signed.signature: 64 bytes
SIGNATURE_BYTES == 64

\* generate_keypair(): (private_key_b64, public_key_b64)
GenerateKeypair(name) ==
    [private |-> [ed25519_private |-> name], public |-> [ed25519_public |-> name]]

\* the keypairs generated: the Hub's, and one of somebody else
KeypairNames == <<"hub-ed25519", "other-ed25519">>

HubSigningKeys == GenerateKeypair(KeypairNames[1])

OtherSigningKeys == GenerateKeypair(KeypairNames[2])

\* one line of a manifest
ManifestItem(code, qty, unit) == [code |-> code, qty |-> qty, unit |-> unit]

\* item lists create_manifest is called with: none, one, and enough items
\* for two and for three chunks of MAX_CHUNK_SIZE
ItemCounts == <<0, 1, MaxItems \div 2, MaxItems>>

ItemList(n) == [i \in 1..n |-> ManifestItem("WATER-500ML", 100 + i, "bottle")]

StationList == <<"STATION-PARK", "STATION-GATE", "STATION-X">>

\* manifest_data of create_manifest, before it is signed; manifest_id,
\* short_code, nonce and ts stand for the values generated
ManifestData(station_id, items) ==
    [type |-> "RESTOCK_MANIFEST", version |-> "1.8",
     manifest_id |-> "M-20250101-ABC123", short_code |-> "1000",
     station_id |-> station_id, items |-> items,
     ts |-> 1735689600, nonce |-> "0123456789abcdef"]

\* the dicts create_manifest is asked to sign
ManifestInputs ==
    [n \in 1..(Len(StationList) * Len(ItemCounts)) |->
        ManifestData(StationList[((n - 1) \div Len(ItemCounts)) + 1],
                     ItemList(ItemCounts[((n - 1) % Len(ItemCounts)) + 1]))]

\* json.dumps(payload, separators=(',', ':'), sort_keys=True).encode('utf-8')
CanonicalJson(payload) == [json |-> payload]

\* the messages a signature was ever made of
SignedMessages == [n \in DOMAIN ManifestInputs |-> CanonicalJson(ManifestInputs[n])]

\* SigningKey.sign(message).signature
Ed25519Sign(private_key, message) ==
    PatternBytes(IndexIn(KeypairNames, private_key.ed25519_private) + 1,
                 IndexIn(SignedMessages, message) + 1, SIGNATURE_BYTES)

\* VerifyKey.verify(message, signature) returns; it raises otherwise
Ed25519Verify(verify_key, message, signature) ==
    /\ Len(signature) = SIGNATURE_BYTES
    /\ IndexIn(SignedMessages, message) >= 0
    /\ signature = Ed25519Sign([ed25519_private |-> verify_key.ed25519_public],
                               message)

\* {k: v for k, v in manifest.items() if k != 'signature'}
WithoutSignature(manifest) ==
    [k \in (DOMAIN manifest) \ {"signature"} |-> manifest[k]]

\* Ed25519Signer.sign(payload) for a dict
Sign(private_key, payload) ==
    B64Encode(Ed25519Sign(private_key, CanonicalJson(payload)))

\* Ed25519Signer.sign_manifest(manifest)
SignManifest(private_key, manifest) ==
    LET signature == Sign(private_key, WithoutSignature(manifest)) IN
    [k \in (DOMAIN manifest) \cup {"signature"} |->
        IF k = "signature" THEN signature ELSE manifest[k]]

\* Ed25519Verifier(public_key_b64): b64decode raises binascii.Error on a
\* text that does not decode, VerifyKey raises ValueError on bytes that are
\* not 32
Ed25519Verifier(public_key_b64) ==
    IF "text" \notin DOMAIN public_key_b64 THEN Returns(public_key_b64)
    ELSE IF B64Decode(public_key_b64.text) = None THEN Raises("binascii.Error")
    ELSE IF Len(B64Decode(public_key_b64.text)[1]) # 32 THEN Raises("ValueError")
    ELSE Returns([ed25519_public |-> B64Decode(public_key_b64.text)[1]])

\* Ed25519Verifier.verify(payload, signature_b64): every exception of
\* b64decode and VerifyKey.verify is caught
Verify(verify_key, payload, signature_b64) ==
    LET signature == B64Decode(signature_b64) IN
    IF signature = None THEN FALSE
    ELSE Ed25519Verify(verify_key, CanonicalJson(payload), signature[1])

\* Ed25519Verifier.verify_manifest(manifest)
VerifyManifest(verify_key, manifest) ==
    IF "signature" \notin DOMAIN manifest THEN FALSE
    ELSE Verify(verify_key, WithoutSignature(manifest), manifest.signature)

\* Ed25519Verifier(public_key_b64).verify_manifest(manifest)
VerifierVerifyManifest(public_key_b64, manifest) ==
    LET verifier == Ed25519Verifier(public_key_b64) IN
    IF "raised" \in DOMAIN verifier THEN verifier
    ELSE Returns(VerifyManifest(verifier.returned, manifest))

\* verify_data(public_key_b64, data, signature_b64)
VerifyData(public_key_b64, data, signature_b64) ==
    LET verifier == Ed25519Verifier(public_key_b64) IN
    IF "raised" \in DOMAIN verifier THEN verifier
    ELSE Returns(Verify(verifier.returned, data, signature_b64))

\* ------------------------------------------------------------------------
\* Inputs of the signing specification
\* ------------------------------------------------------------------------

\* s with the character at position i replaced by c
ReplaceAt(s, i, c) == [j \in 1..Len(s) |-> IF j = i THEN c ELSE s[j]]

\* the character after c in the base64 alphabet, 'A' after '/'
NextB64(c) == B64Alphabet[((IndexIn(B64Alphabet, c) + 1) % 64) + 1]

\* texts a signature text is changed into: a character appended, the last
\* and the first character of the data replaced, a blank inserted, the
\* padding cut, the text cut to one group, and nothing left of it
SignatureChanges(signature) ==
    {signature \o <<"A">>,
     ReplaceAt(signature, Len(signature) - 2, NextB64(signature[Len(signature) - 2])),
     ReplaceAt(signature, 1, NextB64(signature[1])),
     <<" ">> \o signature,
     SubSeq(signature, 1, Len(signature) - 1),
     SubSeq(signature, 1, 4),
     <<>>}

\* a signed manifest with a signed field changed: the first item's qty,
\* the station, one item more
FieldChanges(signed) ==
    {[signed EXCEPT !.station_id = "STATION-X"],
     [signed EXCEPT !.items = Append(signed.items, ManifestItem("RICE-1KG", 50, "bag"))]}
    \cup (IF signed.items = <<>> THEN {}
          ELSE {[signed EXCEPT !.items[1].qty = 999]})

\* what a station may be shown for a manifest the Hub signed
ManifestsOffered(signed) ==
    {signed, WithoutSignature(signed),
     SignManifest(OtherSigningKeys.private, WithoutSignature(signed))}
    \cup FieldChanges(signed)
    \cup {[signed EXCEPT !.signature = s] : s \in SignatureChanges(signed.signature)}
    \cup {[signed EXCEPT !.signature = SignManifest(HubSigningKeys.private, m).signature] :
             m \in {ManifestInputs[n] : n \in DOMAIN ManifestInputs}}

\* texts that are no public key: no base64, and base64 of three bytes
MalformedPublicKey == [text |-> <<"a", "b", "c">>]

ShortPublicKey == [text |-> QUJD]

PublicKeysOffered ==
    {HubSigningKeys.public, OtherSigningKeys.public, MalformedPublicKey, ShortPublicKey}

\* ------------------------------------------------------------------------
\* The wire: json.dumps, str.encode, bytes.decode and json.loads on what the
\* builders hand to chunk().  A str of a dict is a TLA+ string; Characters
\* spells it.
\* ------------------------------------------------------------------------

\* the printable ASCII characters, blank (32) to tilde (126); "grave" holds
\* the place of the grave accent (96), which a TLA+ string cannot hold
Ascii ==
    <<" ", "!", "\"", "#", "$", "%", "&", "'", "(", ")", "*", "+", ",",
    "-", ".", "/", "0", "1", "2", "3", "4", "5", "6", "7", "8", "9", ":",
    ";", "<", "=", ">", "?", "@", "A", "B", "C", "D", "E", "F", "G", "H",
    "I", "J", "K", "L", "M", "N", "O", "P", "Q", "R", "S", "T", "U", "V",
    "W", "X", "Y", "Z", "[", "\\", "]", "^", "_", "grave", "a", "b", "c", "d",
    "e", "f", "g", "h", "i", "j", "k", "l", "m", "n", "o", "p", "q", "r",
    "s", "t", "u", "v", "w", "x", "y", "z", "{", "|", "}", "~">>

\* str.encode('utf-8') of ASCII text
Utf8Encode(text) == [i \in 1..Len(text) |-> IndexIn(Ascii, text[i]) + 32]

\* bytes.decode('utf-8'); None stands for UnicodeDecodeError and for
\* characters the model has no name for
Utf8Decode(bytes) ==
    IF \E i \in 1..Len(bytes) : bytes[i] < 32 \/ bytes[i] > 126 THEN None
    ELSE Some([i \in 1..Len(bytes) |-> Ascii[bytes[i] - 31]])

\* the characters of the strs that occur in what is sent
Characters(s) ==
    CASE s = "type" -> <<"t", "y", "p", "e">>
      [] s = "version" -> <<"v", "e", "r", "s", "i", "o", "n">>
      [] s = "manifest_id" -> <<"m", "a", "n", "i", "f", "e", "s", "t", "_",
           "i", "d">>
      [] s = "short_code" -> <<"s", "h", "o", "r", "t", "_", "c", "o", "d",
           "e">>
      [] s = "station_id" -> <<"s", "t", "a", "t", "i", "o", "n", "_", "i",
           "d">>
      [] s = "items" -> <<"i", "t", "e", "m", "s">>
      [] s = "ts" -> <<"t", "s">>
      [] s = "nonce" -> <<"n", "o", "n", "c", "e">>
      [] s = "signature" -> <<"s", "i", "g", "n", "a", "t", "u", "r", "e">>
      [] s = "code" -> <<"c", "o", "d", "e">>
      [] s = "qty" -> <<"q", "t", "y">>
      [] s = "unit" -> <<"u", "n", "i", "t">>
      [] s = "RESTOCK_MANIFEST" -> <<"R", "E", "S", "T", "O", "C", "K", "_",
           "M", "A", "N", "I", "F", "E", "S", "T">>
      [] s = "1.8" -> <<"1", ".", "8">>
      [] s = "M-20250101-ABC123" -> <<"M", "-", "2", "0", "2", "5", "0", "1",
           "0", "1", "-", "A", "B", "C", "1", "2", "3">>
      [] s = "1000" -> <<"1", "0", "0", "0">>
      [] s = "STATION-PARK" -> <<"S", "T", "A", "T", "I", "O", "N", "-", "P",
           "A", "R", "K">>
      [] s = "STATION-GATE" -> <<"S", "T", "A", "T", "I", "O", "N", "-", "G",
           "A", "T", "E">>
      [] s = "STATION-X" -> <<"S", "T", "A", "T", "I", "O", "N", "-", "X">>
      [] s = "ENCRYPTED_REPORT" -> <<"E", "N", "C", "R", "Y", "P", "T", "E",
           "D", "_", "R", "E", "P", "O", "R", "T">>
      [] s = "payload" -> <<"p", "a", "y", "l", "o", "a", "d">>
      [] s = "compressed" -> <<"c", "o", "m", "p", "r", "e", "s", "s", "e",
           "d">>
      [] s = "WATER-500ML" -> <<"W", "A", "T", "E", "R", "-", "5", "0", "0",
           "M", "L">>
      [] s = "bottle" -> <<"b", "o", "t", "t", "l", "e">>
      [] s = "0123456789abcdef" -> <<"0", "1", "2", "3", "4", "5", "6", "7",
           "8", "9", "a", "b", "c", "d", "e", "f">>

\* sep.join(parts)
RECURSIVE JoinWith(_, _)
JoinWith(parts, sep) ==
    IF Len(parts) = 0 THEN <<>>
    ELSE IF Len(parts) = 1 THEN parts[1]
    ELSE parts[1] \o <<sep>> \o JoinWith(Tail(parts), sep)

\* json.dumps of a str none of whose characters needs an escape
JsonString(s) == <<"\"">> \o Characters(s) \o <<"\"">>

\* json.dumps of a non-negative int
JsonInt(n) == FormatInt(n)

\* json.dumps of a list, given the texts of its elements
JsonArray(elements) == <<"[">> \o JoinWith(elements, ",") \o <<"]">>

\* json.dumps(separators=(',', ':')) of a dict, given its keys in insertion
\* order with the texts of their values
JsonObject(members) ==
    <<"{">>
    \o JoinWith([i \in DOMAIN members |->
                    JsonString(members[i][1]) \o <<":">> \o members[i][2]], ",")
    \o <<"}">>

\* an item dict as the caller of create_manifest wrote it
ItemJson(item) ==
    JsonObject(<< <<"code", JsonString(item.code)>>, <<"qty", JsonInt(item.qty)>>,
                  <<"unit", JsonString(item.unit)>> >>)

\* json.dumps(manifest.to_dict(), separators=(',', ':'))
ManifestJson(d) ==
    JsonObject(<< <<"type", JsonString(d.type)>>,
                  <<"version", JsonString(d.version)>>,
                  <<"manifest_id", JsonString(d.manifest_id)>>,
                  <<"short_code", JsonString(d.short_code)>>,
                  <<"station_id", JsonString(d.station_id)>>,
                  <<"items", JsonArray([i \in DOMAIN d.items |-> ItemJson(d.items[i])])>>,
                  <<"ts", JsonInt(d.ts)>>,
                  <<"nonce", JsonString(d.nonce)>>,
                  <<"signature", <<"\"">> \o d.signature \o <<"\"">> >> >>)

\* ------------------------------------------------------------------------
\* report.py: ReportPacket, ReportBuilder; encryption.py: encrypt_report
\*
\* The str a sealed box travels as is its record with the bytes of the
\* ciphertext added.  The bytes are opaque: a pattern that differs for
\* every plaintext and key of the model, as long as the compressed JSON and
\* the 48 bytes a sealed box adds.
\* ------------------------------------------------------------------------

\* n DISPENSE actions as add_dispense_action appends them
DispenseActions(n) ==
    [i \in 1..n |-> [type |-> "DISPENSE", item_code |-> "WATER", qty |-> [num |-> i]]]

\* action counts of the reports built: for one, two and three chunks
ActionCounts == <<1, MaxActions \div 2, MaxActions>>

\* mutant: the HMAC is computed before seq_id is counted up
BuilderCreateReportStaleSeq(station_id, secret, seq_counter, actions) ==
    LET report == [type |-> "REPORT_PACKET", version |-> "1.8",
                   packet_id |-> "RPT-001", station_id |-> station_id,
                   manifest_id |-> "", seq_id |-> seq_counter + 1,
                   actions |-> actions, ts |-> 1735689600,
                   nonce |-> "0123456789abcdef"]
    IN  IF ~SecretDecodes(secret) THEN Raises("binascii.Error")
        ELSE Returns(report @@ [hmac |-> ComputeHmac(secret,
                                    [report EXCEPT !.seq_id = seq_counter])])

\* ReportBuilder.create_report(actions, packet_id="RPT-001"): the
\* ReportPacket with the HMAC of to_signable_dict(); compute_hmac raises on
\* a secret that does not decode; ts and nonce stand for the values generated
BuilderCreateReport(station_id, secret, seq_counter, actions) ==
    LET report == [type |-> "REPORT_PACKET", version |-> "1.8",
                   packet_id |-> "RPT-001", station_id |-> station_id,
                   manifest_id |-> "", seq_id |-> seq_counter + 1,
                   actions |-> actions, ts |-> 1735689600,
                   nonce |-> "0123456789abcdef"]
    IN  IF ~SecretDecodes(secret) THEN Raises("binascii.Error")
        ELSE Returns(SignedReport(secret, report))

\* ReportPacket.to_dict()
ReportToDict(report) ==
    [type |-> report.type, version |-> report.version,
     packet_id |-> report.packet_id, station_id |-> report.station_id,
     manifest_id |-> report.manifest_id, seq_id |-> report.seq_id,
     actions |-> report.actions, ts |-> report.ts, nonce |-> report.nonce,
     hmac |-> report.hmac]

\* the X25519 public keys a builder is made with: the Hub's and another
EncryptionPublicKeys == <<HubKeys.encryption_public, "other-x25519-public">>

\* len(zlib.compress(json.dumps(report))), taken to grow with the actions
CompressedSize(report) == 100 + 40 * Len(report.actions)

\* NaClSealedBox.encrypt(plaintext): opaque bytes, 48 more than the plaintext
SealedBoxBytes(public_key, report) ==
    PatternBytes(Len(report.actions),
                 2 * IndexIn(StationList, report.station_id)
                     + IndexIn(EncryptionPublicKeys, public_key) + 1,
                 CompressedSize(report) + 48)

\* mutant: the envelope names the station it comes from
BuilderEncryptReportNamesStation(public_key, report) ==
    [type |-> "ENCRYPTED_REPORT", version |-> "1.8",
     station_id |-> report.station_id,
     payload |-> SealedBoxEncrypt(public_key, [json |-> report])
                     @@ [ciphertext |-> SealedBoxBytes(public_key, report)],
     compressed |-> TRUE]

\* SealedBox.encrypt_report(report) of a builder made with public_key
BuilderEncryptReport(public_key, report) ==
    [type |-> "ENCRYPTED_REPORT", version |-> "1.8",
     payload |-> SealedBoxEncrypt(public_key, [json |-> report])
                     @@ [ciphertext |-> SealedBoxBytes(public_key, report)],
     compressed |-> TRUE]

\* json.dumps(encrypted, separators=(',', ':'))
EnvelopeJson(e) ==
    JsonObject(<< <<"type", JsonString(e.type)>>,
                  <<"version", JsonString(e.version)>>,
                  <<"payload", <<"\"">> \o B64Encode(e.payload.ciphertext) \o <<"\"">> >>,
                  <<"compressed", IF e.compressed THEN <<"t", "r", "u", "e">>
                                  ELSE <<"f", "a", "l", "s", "e">> >> >>)

\* ------------------------------------------------------------------------
\* manifest.py: RestockManifest, ManifestBuilder; chunking.py: chunk() on a
\* dict and get_payload_json
\* ------------------------------------------------------------------------

\* ManifestBuilder.create_manifest(station_id, items): the RestockManifest
\* with the signature sign_manifest made of manifest_data
BuilderCreateManifest(private_key, station_id, items) ==
    LET manifest_data == ManifestData(station_id, items)
        signed == SignManifest(private_key, manifest_data)
    IN  [type |-> "RESTOCK_MANIFEST", version |-> "1.8",
         manifest_id |-> manifest_data.manifest_id,
         short_code |-> manifest_data.short_code,
         station_id |-> station_id, items |-> items,
         ts |-> manifest_data.ts, nonce |-> manifest_data.nonce,
         signature |-> signed.signature]

\* mutant: the items are left out of the dict
ToDictWithoutItems(manifest) ==
    [type |-> manifest.type, version |-> manifest.version,
     manifest_id |-> manifest.manifest_id, short_code |-> manifest.short_code,
     station_id |-> manifest.station_id, items |-> <<>>,
     ts |-> manifest.ts, nonce |-> manifest.nonce,
     signature |-> manifest.signature]

\* RestockManifest.to_dict(); "self.items or []" is the items, the empty
\* list and None being one value here
ToDict(manifest) ==
    [type |-> manifest.type, version |-> manifest.version,
     manifest_id |-> manifest.manifest_id, short_code |-> manifest.short_code,
     station_id |-> manifest.station_id, items |-> manifest.items,
     ts |-> manifest.ts, nonce |-> manifest.nonce,
     signature |-> manifest.signature]

\* the row create_manifest inserts into logistics_manifests: manifest_id,
\* short_code, station_id, json.dumps(items), signature, 'PENDING'; ts and
\* nonce have no column; created_at is what the database put there
ManifestRow(manifest, created_at) ==
    [manifest_id |-> manifest.manifest_id, short_code |-> manifest.short_code,
     station_id |-> manifest.station_id, items |-> [json |-> manifest.items],
     signature |-> manifest.signature, status |-> "PENDING",
     created_at |-> created_at]

\* the RestockManifest get_manifest_printable rebuilds from the row: ts is
\* the created_at text read as a local time, or the time of the call when
\* created_at is NULL; type, version and nonce are the dataclass defaults
RebuiltManifest(row, utc_offset, now) ==
    [type |-> "RESTOCK_MANIFEST", version |-> "1.8",
     manifest_id |-> row.manifest_id, short_code |-> row.short_code,
     station_id |-> row.station_id, items |-> JsonLoads(row.items)[1],
     ts |-> IF row.created_at = None THEN now ELSE row.created_at[1] - utc_offset,
     nonce |-> "", signature |-> row.signature]

\* qr_data of to_printable_html: json.dumps(manifest.to_dict()), as the dict
\* a scanner reads back
PrintableQrData(manifest) == ToDict(manifest)

\* json.dumps(payload, separators=(',', ':')) of chunk() for a dict payload
JsonDumps(payload) ==
    IF payload.type = "ENCRYPTED_REPORT" THEN EnvelopeJson(payload)
    ELSE ManifestJson(payload)

\* QRChunker.chunk on a dict payload: serialised, encoded, then as for bytes
ChunkDict(payload, max_chunk_size) ==
    Chunk(Utf8Encode(JsonDumps(payload)), max_chunk_size)

\* ManifestBuilder.to_qr_chunks(manifest), the chunker being QRChunker()
ToQrChunks(manifest) == ChunkDict(ToDict(manifest), MAX_CHUNK_SIZE)

\* ReportBuilder.to_encrypted_chunks(report), the chunker being QRChunker()
ToEncryptedChunks(public_key, report) ==
    ChunkDict(BuilderEncryptReport(public_key, ReportToDict(report)), MAX_CHUNK_SIZE)

\* the dicts the builders of the model hand to chunk()
DictsSent ==
    {ToDict(BuilderCreateManifest(HubSigningKeys.private, ManifestInputs[n].station_id,
                                  ManifestInputs[n].items)) : n \in DOMAIN ManifestInputs}
    \cup {BuilderEncryptReport(EncryptionPublicKeys[k],
              ReportToDict(BuilderCreateReport(station_id, GenerateStationSecret(station_id),
                               0, DispenseActions(ActionCounts[n])).returned)) :
              k \in DOMAIN EncryptionPublicKeys, station_id \in StationIds,
              n \in DOMAIN ActionCounts}

\* json.loads(text): the dict whose json.dumps the text is; None stands for
\* JSONDecodeError, raised for a text that is the json.dumps of no dict
JsonLoadsText(text) ==
    IF \E d \in DictsSent : JsonDumps(d) = text
    THEN Some(CHOOSE d \in DictsSent : JsonDumps(d) = text)
    ELSE None

\* QRReassembler.get_payload_json(): None for no or an empty payload
GetPayloadJson(r) ==
    LET got == GetPayload(r) IN
    IF got = Raise THEN Raises("binascii.Error")
    ELSE IF got = None THEN Returns(None)
    ELSE IF got[1] = <<>> THEN Returns(None)
    ELSE IF Utf8Decode(got[1]) = None THEN Raises("UnicodeDecodeError")
    ELSE IF JsonLoadsText(Utf8Decode(got[1])[1]) = None THEN Raises("JSONDecodeError")
    ELSE Returns(JsonLoadsText(Utf8Decode(got[1])[1]))

\* ------------------------------------------------------------------------
\* encryption.py: SealedBox
\*
\* A plaintext handed to encrypt is [bytes |-> b], [str |-> s] or
\* [dict |-> d].  A box holds the key of its seal box and of its unseal box,
\* None for a box it was not given the key for.  The ciphertext of a sealed
\* box is kept symbolic, as everywhere in this module, and stands for its
\* base64 text; [text |-> s] is any other text handed over as a ciphertext.
\* zlib.compress is modelled by the stored form of the zlib stream (header,
\* one stored block, Adler-32), which is the stream zlib makes at level 0:
\* the Huffman coding of level 6 shortens the stream and decompresses to the
\* same bytes.  zlib.decompress accepts the streams of that form.
\* ------------------------------------------------------------------------

\* the sum of weight * byte over the bytes lo..hi, the weight of the i-th
\* byte being 1 or the number of bytes from it to the end; by halves
RECURSIVE ByteSum(_, _, _, _)
ByteSum(bytes, lo, hi, weighted) ==
    IF lo > hi THEN 0
    ELSE IF lo = hi
    THEN (IF weighted THEN Len(bytes) - lo + 1 ELSE 1) * bytes[lo]
    ELSE LET mid == (lo + hi) \div 2 IN
         ByteSum(bytes, lo, mid, weighted) + ByteSum(bytes, mid + 1, hi, weighted)

\* the four bytes of the Adler-32 checksum, most significant first: s1 is
\* 1 plus the bytes, s2 the sum of s1 after every byte, both modulo 65521
Adler32(bytes) ==
    LET s1 == (1 + ByteSum(bytes, 1, Len(bytes), FALSE)) % 65521
        s2 == (Len(bytes) + ByteSum(bytes, 1, Len(bytes), TRUE)) % 65521
    IN  <<s2 \div 256, s2 % 256, s1 \div 256, s1 % 256>>

\* zlib.compress(plaintext): a zlib stream of the plaintext
ZlibCompress(bytes) ==
    <<120, 1, 1, Len(bytes) % 256, Len(bytes) \div 256,
      255 - (Len(bytes) % 256), 255 - (Len(bytes) \div 256)>>
    \o bytes \o Adler32(bytes)

\* zlib.decompress(plaintext): the bytes of the stream, None for zlib.error
ZlibDecompress(stream) ==
    IF Len(stream) < 11 THEN None
    ELSE LET n == stream[4] + 256 * stream[5]
             data == SubSeq(stream, 8, 7 + n)
         IN  IF /\ SubSeq(stream, 1, 3) = <<120, 1, 1>>
                /\ stream[6] = 255 - stream[4]
                /\ stream[7] = 255 - stream[5]
                /\ Len(stream) = n + 11
                /\ SubSeq(stream, 8 + n, 11 + n) = Adler32(data)
             THEN Some(data)
             ELSE None

\* the X25519 keypairs generate_encryption_keypair made
EncryptionKeypairs ==
    << [private |-> HubKeys.encryption_private, public |-> HubKeys.encryption_public],
       [private |-> "other-x25519-private", public |-> "other-x25519-public"] >>

\* private_key.public_key
PublicKeyOf(private_key) ==
    (CHOOSE pair \in {EncryptionKeypairs[i] : i \in DOMAIN EncryptionKeypairs} :
        pair.private = private_key).public

\* SealedBox(public_key_b64, private_key_b64), None for a key not given:
\* the seal box of the public key given or else derived, the unseal box of
\* the private key
NewSealedBox(public_key_b64, private_key_b64) ==
    [seal_box |-> IF public_key_b64 # None THEN public_key_b64
                  ELSE IF private_key_b64 # None
                  THEN Some(PublicKeyOf(private_key_b64[1]))
                  ELSE None,
     unseal_box |-> private_key_b64]

\* the bytes encrypt makes of its plaintext before compressing
PlaintextBytes(plaintext) ==
    IF "dict" \in DOMAIN plaintext THEN Utf8Encode(JsonDumps(plaintext.dict))
    ELSE IF "str" \in DOMAIN plaintext THEN Utf8Encode(plaintext.str)
    ELSE plaintext.bytes

\* SealedBox.encrypt(plaintext, compress)
BoxEncrypt(box, plaintext, compress) ==
    IF box.seal_box = None
    THEN Raises("ValueError: No public key provided for encryption")
    ELSE Returns(SealedBoxEncrypt(box.seal_box[1],
                     IF compress THEN ZlibCompress(PlaintextBytes(plaintext))
                     ELSE PlaintextBytes(plaintext)))

\* self._unseal_box.decrypt(base64.b64decode(ciphertext_b64)): binascii.Error
\* for a text that is no base64, CryptoError for bytes that are no sealed box
\* or one for another key
Unseal(private_key, ciphertext_b64) ==
    IF "text" \in DOMAIN ciphertext_b64
    THEN IF B64Decode(ciphertext_b64.text) = None THEN Raises("binascii.Error")
         ELSE Raises("CryptoError")
    ELSE IF ciphertext_b64.sealed_for # PublicKeyOf(private_key)
    THEN Raises("CryptoError")
    ELSE Returns(ciphertext_b64.plain)

\* mutant: a box without the private key returns no bytes instead of raising
BoxDecryptSwallowed(box, ciphertext_b64, decompress) ==
    IF box.unseal_box = None THEN Returns(<<>>)
    ELSE LET plaintext == Unseal(box.unseal_box[1], ciphertext_b64) IN
         IF "raised" \in DOMAIN plaintext THEN plaintext
         ELSE IF decompress /\ ZlibDecompress(plaintext.returned) # None
         THEN Returns(ZlibDecompress(plaintext.returned)[1])
         ELSE plaintext

\* SealedBox.decrypt(ciphertext_b64, decompress); bytes that zlib does not
\* decompress are returned as they are
BoxDecrypt(box, ciphertext_b64, decompress) ==
    IF box.unseal_box = None
    THEN Raises("ValueError: No private key provided for decryption")
    ELSE LET plaintext == Unseal(box.unseal_box[1], ciphertext_b64) IN
         IF "raised" \in DOMAIN plaintext THEN plaintext
         ELSE IF decompress /\ ZlibDecompress(plaintext.returned) # None
         THEN Returns(ZlibDecompress(plaintext.returned)[1])
         ELSE plaintext

\* json.loads(plaintext.decode('utf-8'))
JsonLoadsBytes(bytes) ==
    IF Utf8Decode(bytes) = None THEN Raises("UnicodeDecodeError")
    ELSE IF JsonLoadsText(Utf8Decode(bytes)[1]) = None THEN Raises("JSONDecodeError")
    ELSE Returns(JsonLoadsText(Utf8Decode(bytes)[1])[1])

\* SealedBox.decrypt_json(ciphertext_b64)
BoxDecryptJson(box, ciphertext_b64) ==
    LET plaintext == BoxDecrypt(box, ciphertext_b64, TRUE) IN
    IF "raised" \in DOMAIN plaintext THEN plaintext
    ELSE JsonLoadsBytes(plaintext.returned)

\* SealedBox.encrypt_report(report)
BoxEncryptReport(box, report) ==
    LET ciphertext == BoxEncrypt(box, [dict |-> report], TRUE) IN
    IF "raised" \in DOMAIN ciphertext THEN ciphertext
    ELSE Returns([type |-> "ENCRYPTED_REPORT", version |-> "1.8",
                  payload |-> ciphertext.returned, compressed |-> TRUE])

\* mutant: the envelope type is looked at after the payload was decrypted
BoxDecryptReportTypeLast(box, envelope) ==
    IF "payload" \notin DOMAIN envelope THEN Raises("KeyError")
    ELSE LET plaintext == BoxDecrypt(box, envelope.payload,
                                     GetOr(envelope, "compressed", TRUE))
         IN  IF "raised" \in DOMAIN plaintext THEN plaintext
             ELSE IF GetOr(envelope, "type", "") # "ENCRYPTED_REPORT"
             THEN Raises("ValueError: Invalid envelope type")
             ELSE JsonLoadsBytes(plaintext.returned)

\* SealedBox.decrypt_report(envelope)
BoxDecryptReport(box, envelope) ==
    IF GetOr(envelope, "type", "") # "ENCRYPTED_REPORT"
    THEN Raises("ValueError: Invalid envelope type")
    ELSE IF "payload" \notin DOMAIN envelope THEN Raises("KeyError")
    ELSE LET plaintext == BoxDecrypt(box, envelope.payload,
                                     GetOr(envelope, "compressed", TRUE))
         IN  IF "raised" \in DOMAIN plaintext THEN plaintext
             ELSE JsonLoadsBytes(plaintext.returned)

\* ------------------------------------------------------------------------
\* Inputs of the sealed-box specification
\* ------------------------------------------------------------------------

\* the Station's box, the Hub's box, a box given both keys, the box of
\* another keypair and a box given no key
Boxes ==
    [carrier |-> NewSealedBox(Some(HubKeys.encryption_public), None),
     hub |-> NewSealedBox(None, Some(HubKeys.encryption_private)),
     both |-> NewSealedBox(Some(HubKeys.encryption_public),
                           Some(HubKeys.encryption_private)),
     other |-> NewSealedBox(None, Some("other-x25519-private")),
     keyless |-> NewSealedBox(None, None)]

\* the dicts encrypted: a manifest of one item and one without items
BoxDicts ==
    {ToDict(BuilderCreateManifest(HubSigningKeys.private, "STATION-PARK", ItemList(n))) :
        n \in {0, 1}}

\* plaintexts: no bytes, two bytes, bytes that are a zlib stream themselves,
\* a str, and the dicts
Plaintexts ==
    {[bytes |-> <<>>], [bytes |-> <<104, 105>>],
     [bytes |-> ZlibCompress(<<104, 105>>)],
     [str |-> Characters("STATION-PARK")]}
    \cup {[dict |-> d] : d \in BoxDicts}

\* texts that are no ciphertext of a sealed box: no base64, and base64 of
\* three bytes
ForeignCiphertexts == {[text |-> <<"a", "b", "c">>], [text |-> QUJD]}

\* an envelope as a carrier can change it
EnvelopeChanges(envelope) ==
    {envelope,
     [envelope EXCEPT !.type = "RESTOCK_MANIFEST"],
     [k \in (DOMAIN envelope) \ {"type"} |-> envelope[k]],
     [k \in (DOMAIN envelope) \ {"payload"} |-> envelope[k]],
     [type |-> "RESTOCK_MANIFEST"],
     [envelope EXCEPT !.type = "REPORT_PACKET", !.payload = [text |-> <<"a", "b", "c">>]],
     [k \in (DOMAIN envelope) \ {"compressed"} |-> envelope[k]]}

\* ------------------------------------------------------------------------
\* report.py: ReportBuilder instances, create_manifest_ack
\* ------------------------------------------------------------------------

\* the builders at work: two stations with the secret they were provisioned
\* with, and a second builder of STATION-PARK made with a text that is no
\* base64 for its secret
Builders ==
    [park |-> [station_id |-> "STATION-PARK",
               secret |-> GenerateStationSecret("STATION-PARK"),
               public_key |-> HubKeys.encryption_public],
     gate |-> [station_id |-> "STATION-GATE",
               secret |-> GenerateStationSecret("STATION-GATE"),
               public_key |-> HubKeys.encryption_public],
     park_bad |-> [station_id |-> "STATION-PARK", secret |-> MalformedSecret,
                   public_key |-> HubKeys.encryption_public]]

\* ActionRecord(type="RECEIVE", ...).to_dict() with manifest_id added, as
\* add_receive_action appends it: empty fields are left out
ReceiveAction(item, manifest_id) ==
    LET code == GetOr(item, "code", "")
        qty == GetOr(item, "qty", 0)
        unit == GetOr(item, "unit", "unit")
        base == [type |-> "RECEIVE", ts |-> 1735689600]
        coded == IF code # "" THEN base @@ [item_code |-> code] ELSE base
        counted == IF qty # 0 THEN coded @@ [qty |-> [num |-> qty], unit |-> unit]
                   ELSE coded
    IN  IF manifest_id # "" THEN counted @@ [manifest_id |-> manifest_id]
        ELSE counted

\* mutant: seq_id is taken before the counter is counted up
BuilderCreateManifestAckCountLate(station_id, secret, seq_counter, manifest_id, items_received) ==
    LET actions == [i \in 1..Len(items_received) |->
                       ReceiveAction(items_received[i], manifest_id)]
        report == [type |-> "REPORT_PACKET", version |-> "1.8",
                   packet_id |-> "RPT-001", station_id |-> station_id,
                   manifest_id |-> manifest_id, seq_id |-> seq_counter,
                   actions |-> actions, ts |-> 1735689600,
                   nonce |-> "0123456789abcdef"]
    IN  IF ~SecretDecodes(secret) THEN Raises("binascii.Error")
        ELSE Returns(SignedReport(secret, report))

\* ReportBuilder.create_manifest_ack(manifest_id, items_received): one
\* RECEIVE per item, then create_report(actions, manifest_id)
BuilderCreateManifestAck(station_id, secret, seq_counter, manifest_id, items_received) ==
    LET actions == [i \in 1..Len(items_received) |->
                       ReceiveAction(items_received[i], manifest_id)]
        report == [type |-> "REPORT_PACKET", version |-> "1.8",
                   packet_id |-> "RPT-001", station_id |-> station_id,
                   manifest_id |-> manifest_id, seq_id |-> seq_counter + 1,
                   actions |-> actions, ts |-> 1735689600,
                   nonce |-> "0123456789abcdef"]
    IN  IF ~SecretDecodes(secret) THEN Raises("binascii.Error")
        ELSE Returns(SignedReport(secret, report))

\* the items a station acknowledges: one with every field, one without qty
ItemsReceived ==
    << ManifestItem("WATER-500ML", 24, "bottle"), [code |-> "TENT"] >>


\* ------------------------------------------------------------------------
\* shared/crypto/hmac.py on reports as Python dicts
\*
\* A dict is the sequence of its <<key, value>> items in insertion order,
\* no key twice; a value is [str |-> text], [num |-> n], [list |-> values],
\* JSON null or, for an hmac, a tag.
\* ------------------------------------------------------------------------

\* the keys of the reports of the model in the order sorted() gives them
KeyOrder == <<"actions", "hmac", "packet_id", "seq_id", "station_id">>

\* the place of a key among the sorted keys
KeyRank(key) == CHOOSE n \in DOMAIN KeyOrder : KeyOrder[n] = key

\* 'key' in report
HasKey(items, key) == \E i \in DOMAIN items : items[i][1] = key

\* report[key]
ItemOf(items, key) == items[CHOOSE i \in DOMAIN items : items[i][1] = key][2]

\* {k: v for k, v in report.items() if k != 'hmac'}
WithoutHmac(items) == SelectSeq(items, LAMBDA item : item[1] # "hmac")

\* result[key] = value: in the place of the key, at the end for a new key
SetItem(items, key, value) ==
    IF HasKey(items, key)
    THEN [i \in DOMAIN items |-> IF items[i][1] = key THEN <<key, value>> ELSE items[i]]
    ELSE Append(items, <<key, value>>)

\* json.dumps(data, separators=(',', ':'), sort_keys=True): the items in
\* the order of their keys
JsonDumpsSorted(items) ==
    LET ranks == {KeyRank(items[i][1]) : i \in DOMAIN items}
        Nth(n) == CHOOSE r \in ranks : Cardinality({q \in ranks : q < r}) = n - 1
    IN  [n \in 1..Len(items) |->
            LET key == KeyOrder[Nth(n)] IN <<key, ItemOf(items, key)>>]

\* compute_hmac(secret_b64, data) for a dict
ComputeHmacOfDict(secret, items) ==
    IF ~SecretDecodes(secret) THEN Raises("binascii.Error")
    ELSE Returns(ComputeHmac(secret, JsonDumpsSorted(items)))

\* add_hmac_to_report(secret_b64, report)
AddHmacToReport(secret, report) ==
    LET hmac_value == ComputeHmacOfDict(secret, WithoutHmac(report)) IN
    IF "raised" \in DOMAIN hmac_value THEN hmac_value
    ELSE Returns(SetItem(report, "hmac", hmac_value.returned))

\* verify_report_hmac(secret_b64, report): False without an hmac, else
\* verify_hmac(secret_b64, to_verify, report['hmac'])
VerifyReportHmacOfDict(secret, report) ==
    IF ~HasKey(report, "hmac") THEN Returns(FALSE)
    ELSE VerifyHmac(secret, JsonDumpsSorted(WithoutHmac(report)), ItemOf(report, "hmac"))

\* reports handed to add_hmac_to_report: keys in two orders, and one that
\* still carries the hmac of an earlier tagging under another secret
HmacReports ==
    LET body == << <<"packet_id", [str |-> <<"P", "1">>]>>,
                   <<"station_id", [str |-> <<"S", "1">>]>>,
                   <<"seq_id", [num |-> 1]>>,
                   <<"actions", [list |-> << [num |-> 5] >>]>> >>
    IN  << body,
           << body[4], body[2], body[1] >>,
           << body[1], <<"hmac", ComputeHmac(AttackerSecret, JsonDumpsSorted(body))>>,
              body[2], body[3] >> >>

\* another value for a field
ChangedValue(value) ==
    IF "num" \in DOMAIN value THEN [num |-> value.num + 1]
    ELSE IF "list" \in DOMAIN value THEN [list |-> Append(value.list, [num |-> 1])]
    ELSE [str |-> Append(value.str, "x")]

\* the same dict with its items in other orders
Reorderings(items) ==
    {[i \in DOMAIN items |-> items[Len(items) + 1 - i]],
     [i \in DOMAIN items |-> items[(i % Len(items)) + 1]]}

\* a tagged report with the value of one field other than hmac changed
ReportFieldChanges(items) ==
    {SetItem(items, items[i][1], ChangedValue(items[i][2])) :
         i \in {j \in DOMAIN items : items[j][1] # "hmac"}}

\* a tagged report with another hmac: no tag, a tag under another secret
HmacChanges(items) ==
    {SetItem(items, "hmac", h) :
         h \in OddHmacs \cup {ComputeHmac(AttackerSecret,
                                          JsonDumpsSorted(WithoutHmac(items)))}}

\* secrets handed to the two functions
HmacSecrets == SecretPool \cup {AttackerSecret}

\* ------------------------------------------------------------------------
\* logistics.py: get_or_create_hub_keys on table hub_keys
\*
\* A row of hub_keys is [key_type, private_key, public_key].  A generated
\* key is kept symbolic and names the random draw it was made from.  Every
\* Hub process runs get_or_create_hub_keys on a connection of its own: its
\* SELECTs read the committed rows and the rows it inserted itself, its
\* first INSERT opens the writing transaction, which SQLite gives to one
\* connection at a time, and conn.commit() at the end makes its rows the
\* committed ones.
\* ------------------------------------------------------------------------

KeyTypes == <<"signing", "encryption">>

\* generate_encryption_keypair(): (private_key_b64, public_key_b64)
GenerateEncryptionKeypair(name) ==
    [private |-> [x25519_private |-> name], public |-> [x25519_public |-> name]]

\* the random bytes a key is generated from: none drawn twice
RandomDraw(h, drawn) == [drawn_by |-> h, draw |-> drawn + 1]

\* mutant: the encryption keypair is made from the draw of the signing one
GenerateHubKeyOneDraw(key_type, draw) ==
    IF key_type = "signing" THEN GenerateKeypair(draw)
    ELSE GenerateEncryptionKeypair([draw EXCEPT !.draw = @ - 1])

\* generate_keypair() for the signing key, generate_encryption_keypair()
\* for the encryption key, each from a draw of its own
GenerateHubKey(key_type, draw) ==
    IF key_type = "signing" THEN GenerateKeypair(draw)
    ELSE GenerateEncryptionKeypair(draw)

\* the random bytes a generated private key was made from
DrawOf(private_key) ==
    IF "ed25519_private" \in DOMAIN private_key THEN private_key.ed25519_private
    ELSE private_key.x25519_private

\* a Hub process outside get_or_create_hub_keys
KeysIdle == [pc |-> "idle", keys |-> <<>>, pending |-> None, drawn |-> 0]

\* the rows connection h reads: the committed ones and its own
VisibleRows(committed, txn, h) ==
    IF txn.writer = Some(h) THEN committed \o txn.rows ELSE committed

\* SELECT private_key, public_key FROM hub_keys WHERE key_type = ?,
\* fetchone(): the first such row or None
SelectHubKey(rows, key_type) ==
    LET found == SelectSeq(rows, LAMBDA row : row.key_type = key_type) IN
    IF found = <<>> THEN None ELSE Some(found[1])

\* hub_keys holds one row for a key_type: a second one is refused
HubKeysKeyTaken(rows, key_type) ==
    \E i \in 1..Len(rows) : rows[i].key_type = key_type

\* INSERT INTO hub_keys (key_type, private_key, public_key) on the rows the
\* connection sees; sqlite3.IntegrityError when the key_type is taken
InsertHubKey(rows, key_type, pair) ==
    IF HubKeysKeyTaken(rows, key_type) THEN Raised(rows)
    ELSE Done(Append(rows, [key_type |-> key_type, private_key |-> pair.private,
                            public_key |-> pair.public]))

\* keys[key_type + '_private'], keys[key_type + '_public'] = the pair
WithKeys(keys, key_type, private_key, public_key) ==
    IF key_type = "signing"
    THEN keys @@ [signing_private |-> private_key, signing_public |-> public_key]
    ELSE keys @@ [encryption_private |-> private_key,
                  encryption_public |-> public_key]


\* ------------------------------------------------------------------------
\* State
\* ------------------------------------------------------------------------

VARIABLES
    payload,         \* the payload handed to chunk(): bytes, or the dict a builder sends
    max_chunk_size,  \* QRChunker.max_chunk_size
    qr,              \* the chunk strings chunk() returned, <<>> before the call
    rsm,             \* QRReassembler: _chunks, _total, _complete
    call,            \* the last call made: operation, argument, result
    db,              \* the committed content of the Hub database
    db_lock,         \* database.db_lock of every Hub process
    request,         \* the envelope an ingest_packet in progress was sent
    answers,         \* the answers so far to the calls with an envelope, in order
    secrets,         \* HubVerifier._secrets
    station_secrets, \* ReportDecryptor._station_secrets
    packet,          \* the manifest or report a signer or builder returned
    seq_counter,     \* ReportBuilder._seq_counter of every builder
    reports,         \* the reports every builder returned, in order
    enveloped,       \* the two envelopes made last, with their reports
    hub_keys,        \* the committed rows of table hub_keys
    key_txn,         \* the open writing transaction on hub_keys and its rows
    key_call,        \* every Hub process's place in get_or_create_hub_keys
    keys_returned    \* the dicts get_or_create_hub_keys returned

chunkVars == <<payload, max_chunk_size, qr, rsm, call>>

hubVars == <<db, db_lock, request, answers>>

authVars == <<secrets, station_secrets>>

builderVars == <<seq_counter, reports, enveloped>>

keyVars == <<hub_keys, key_txn, key_call, keys_returned>>

wireVars == <<packet, builderVars, keyVars>>

vars ==
    <<payload, max_chunk_size, qr, rsm, call, db, db_lock, request, answers,
      secrets, station_secrets, packet, seq_counter, reports, enveloped,
      hub_keys, key_txn, key_call, keys_returned>>

\* ReportBuilder(station_id, secret, key) for every builder: nothing
\* created, nothing encrypted
InitBuilders ==
    /\ seq_counter = [b \in DOMAIN Builders |-> 0]
    /\ reports = [b \in DOMAIN Builders |-> <<>>]
    /\ enveloped = <<>>

\* table hub_keys after init_db: no row; every Hub process outside
\* get_or_create_hub_keys
InitKeys ==
    /\ hub_keys = <<>>
    /\ key_txn = [writer |-> None, rows |-> <<>>]
    /\ key_call = [h \in Hubs |-> KeysIdle]
    /\ keys_returned = {}

\* nothing signed or built yet
InitWire ==
    /\ packet = None
    /\ InitBuilders
    /\ InitKeys

\* HubVerifier() and ReportDecryptor(hub_private_key): no station registered
InitAuth ==
    /\ secrets = <<>>
    /\ station_secrets = <<>>

\* the database after init_db and the seeder, every Hub process idle
InitHub ==
    /\ db = [logistics_stations |-> <<>>, seen_packets |-> <<>>,
             inventory |-> SeededInventory, logistics_manifests |-> <<>>,
             logistics_audit |-> EmptyBag]
    /\ db_lock = [h \in Hubs |-> FALSE]
    /\ request = [h \in Hubs |-> None]
    /\ answers = [e \in Envelopes |-> <<>>]

\* ------------------------------------------------------------------------
\* SpecChunk: one chunker, one reassembler
\* ------------------------------------------------------------------------

InitChunk ==
    /\ payload \in Payloads
    /\ max_chunk_size \in ChunkSizes
    /\ qr = <<>>
    /\ rsm = FreshReassembler
    /\ call = [op |-> "new", arg |-> <<>>, result |-> None]
    /\ InitHub
    /\ InitAuth
    /\ InitWire

\* chunks = QRChunker(max_chunk_size).chunk(payload)
ChunkCall ==
    /\ qr = <<>>
    /\ IF ChunkRaises(payload, max_chunk_size)
       THEN /\ qr' = qr
            /\ call' = [op |-> "chunk", arg |-> <<>>, result |-> Raise]
       ELSE /\ qr' = Chunk(payload, max_chunk_size)
            /\ call' = [op |-> "chunk", arg |-> <<>>, result |-> None]
    /\ UNCHANGED <<payload, max_chunk_size, rsm>>
    /\ UNCHANGED <<hubVars, authVars, wireVars>>

\* reassembler.add_chunk(chunk_str) for an emitted, a foreign or a malformed string
AddChunkCall ==
    \E chunk_str \in {qr[i] : i \in 1..Len(qr)} \cup ForeignChunks \cup MalformedChunks :
        LET after == AddChunk(rsm, chunk_str) IN
        /\ rsm' = [chunks |-> after.chunks, total |-> after.total,
                   complete |-> after.complete]
        /\ call' = [op |-> "add_chunk", arg |-> chunk_str, result |-> after.result]
        /\ UNCHANGED <<payload, max_chunk_size, qr>>
        /\ UNCHANGED <<hubVars, authVars, wireVars>>

\* reassembler.get_payload()
GetPayloadCall ==
    /\ call' = [op |-> "get_payload", arg |-> <<>>, result |-> GetPayload(rsm)]
    /\ UNCHANGED <<payload, max_chunk_size, qr, rsm>>
    /\ UNCHANGED <<hubVars, authVars, wireVars>>

\* reassembler.reset()
ResetCall ==
    /\ rsm' = FreshReassembler
    /\ call' = [op |-> "reset", arg |-> <<>>, result |-> None]
    /\ UNCHANGED <<payload, max_chunk_size, qr>>
    /\ UNCHANGED <<hubVars, authVars, wireVars>>

NextChunk == ChunkCall \/ AddChunkCall \/ GetPayloadCall \/ ResetCall

SpecChunk == InitChunk /\ [][NextChunk]_vars

\* ------------------------------------------------------------------------
\* SpecFrame: chunk() alone, for every payload and chunk size of FrameSizes
\* ------------------------------------------------------------------------

InitFrame ==
    /\ payload \in Payloads
    /\ max_chunk_size \in FrameSizes
    /\ qr = <<>>
    /\ rsm = FreshReassembler
    /\ call = [op |-> "new", arg |-> <<>>, result |-> None]
    /\ InitHub
    /\ InitAuth
    /\ InitWire

NextFrame == ChunkCall

SpecFrame == InitFrame /\ [][NextFrame]_vars

\* ------------------------------------------------------------------------
\* Spec: two Hub processes on one database, sent any envelope at any time.
\* SpecRetry: the same, sent well-formed reports, each again only after the
\* answer to the call before.
\*
\* ingest_packet holds db_lock from its first statement to its last.  Its
\* SELECTs run outside a transaction and read the committed database; its
\* first write opens the transaction that get_db commits or rolls back, and
\* SQLite admits one writing transaction at a time, so the writes of one
\* call take effect together at its commit.  A call is therefore two steps
\* when it gets as far as the INSERT into seen_packets, and one otherwise.
\* ------------------------------------------------------------------------

\* ingest requests received so far
RECURSIVE AnswersGiven(_)
AnswersGiven(envelopes) ==
    IF envelopes = {} THEN 0
    ELSE LET e == CHOOSE x \in envelopes : TRUE
         IN  Len(answers[e]) + AnswersGiven(envelopes \ {e})

CallsReceived == AnswersGiven(Envelopes) + Cardinality({h \in Hubs : db_lock[h]})

Init ==
    /\ payload = <<>>
    /\ max_chunk_size = MAX_CHUNK_SIZE
    /\ qr = <<>>
    /\ rsm = FreshReassembler
    /\ call = [op |-> "new", arg |-> <<>>, result |-> None]
    /\ InitHub
    /\ InitAuth
    /\ InitWire

\* ingest_packet up to its look-up in seen_packets: the envelope type is
\* checked before write_db is entered; a rejected or duplicate packet is
\* answered here
IngestBegin(h, sent) ==
    /\ ~db_lock[h]
    /\ CallsReceived < MaxCalls
    /\ CanBeSent(db, EnvelopeOf[sent])
    /\ IF GetOr(EnvelopeOf[sent], "type", "") # "ENCRYPTED_REPORT"
       THEN /\ answers' = [answers EXCEPT ![sent] = Append(@, HttpError(400))]
            /\ UNCHANGED <<db, db_lock, request>>
       ELSE LET checked == IngestCheck(db, EnvelopeOf[sent]) IN
            IF checked.proceed
            THEN /\ db_lock' = [db_lock EXCEPT ![h] = TRUE]
                 /\ request' = [request EXCEPT ![h] = Some(sent)]
                 /\ UNCHANGED <<db, answers>>
            ELSE /\ db' = GetDb(db, checked.conn, checked.raised)
                 /\ answers' = [answers EXCEPT ![sent] = Append(@, checked.response)]
                 /\ UNCHANGED <<db_lock, request>>
    /\ UNCHANGED <<chunkVars, authVars, wireVars>>

\* ingest_packet from the INSERT into seen_packets to the commit or the
\* rollback of get_db, and the release of db_lock
IngestWrite(h) ==
    /\ db_lock[h]
    /\ request[h] # None
    /\ LET sent == request[h][1]
           report == ReportOf(EnvelopeOf[sent])
           written == IngestRecord(db, report)
       IN  /\ db' = GetDb(db, written.conn, written.raised)
           /\ answers' = [answers EXCEPT ![sent] =
                  Append(@, IF written.raised THEN HttpError(500)
                            ELSE IngestPacketResponse(report, FALSE))]
    /\ db_lock' = [db_lock EXCEPT ![h] = FALSE]
    /\ request' = [request EXCEPT ![h] = None]
    /\ UNCHANGED <<chunkVars, authVars, wireVars>>

\* provision_station for a station_id not yet in logistics_stations
ProvisionStation(h, station_id) ==
    /\ ~db_lock[h]
    /\ station_id \notin DOMAIN db.logistics_stations
    /\ db' = LogAudit(
                [db EXCEPT !.logistics_stations =
                    [s \in (DOMAIN @) \cup {station_id} |->
                        IF s = station_id
                        THEN [station_secret |-> GenerateStationSecret(station_id)]
                             @@ StationDefaults
                        ELSE @[s]]],
                "STATION_PROVISIONED", station_id, "", "")
    /\ UNCHANGED <<db_lock, request, answers>>
    /\ UNCHANGED <<chunkVars, authVars, wireVars>>

\* update_station(station_id, is_active=...) for a registered station
UpdateStation(h, station_id, is_active) ==
    /\ ~db_lock[h]
    /\ station_id \in DOMAIN db.logistics_stations
    /\ BagCardinality(db.logistics_audit) < MaxAuditRows
    /\ db' = LogAudit(
                [db EXCEPT !.logistics_stations[station_id].is_active =
                    IF is_active THEN 1 ELSE 0],
                "STATION_UPDATED", station_id, "", "")
    /\ UNCHANGED <<db_lock, request, answers>>
    /\ UNCHANGED <<chunkVars, authVars, wireVars>>

\* delete_station without hard_delete: the station is kept, out of service
DeleteStation(h, station_id) ==
    /\ ~db_lock[h]
    /\ station_id \in DOMAIN db.logistics_stations
    /\ BagCardinality(db.logistics_audit) < MaxAuditRows
    /\ db' = LogAudit(
                [db EXCEPT !.logistics_stations[station_id].is_active = 0],
                "STATION_DEACTIVATED", station_id, "", "")
    /\ UNCHANGED <<db_lock, request, answers>>
    /\ UNCHANGED <<chunkVars, authVars, wireVars>>

\* create_manifest for an active station with the manifest_id of the
\* request: the INSERT of a manifest_id that is stored already is refused,
\* and get_db rolls back
CreateManifest(h, station_id, manifest_id) ==
    /\ ~db_lock[h]
    /\ station_id \in DOMAIN db.logistics_stations
    /\ db.logistics_stations[station_id].is_active = 1
    /\ db' = IF ManifestIdTaken(db.logistics_manifests, manifest_id)
             THEN GetDb(db, db, TRUE)
             ELSE LogAudit(
                [db EXCEPT !.logistics_manifests =
                    [m \in (DOMAIN @) \cup {manifest_id} |->
                        IF m = manifest_id
                        THEN [station_id |-> station_id, status |-> "PENDING"]
                        ELSE @[m]]],
                "MANIFEST_CREATED", station_id, "", manifest_id)
    /\ UNCHANGED <<db_lock, request, answers>>
    /\ UNCHANGED <<chunkVars, authVars, wireVars>>

Next ==
    \/ \E h \in Hubs, sent \in OwnIdEnvelopes : IngestBegin(h, sent)
    \/ \E h \in Hubs : IngestWrite(h)
    \/ \E h \in Hubs, station_id \in StationIds : ProvisionStation(h, station_id)
    \/ \E h \in Hubs, station_id \in StationIds, is_active \in BOOLEAN :
           UpdateStation(h, station_id, is_active)
    \/ \E h \in Hubs, station_id \in StationIds : DeleteStation(h, station_id)
    \/ \E h \in Hubs, manifest_id \in ManifestIds :
           CreateManifest(h, "STATION-PARK", manifest_id)

Spec == Init /\ [][Next]_vars

\* no Hub process is at work on a call with this envelope
Answered(sent) == \A h \in Hubs : request[h] # Some(sent)

\* reports as ReportBuilder makes them, every station in service, and an
\* envelope sent again only after the call with it was answered
NextRetry ==
    \/ \E h \in Hubs, sent \in OwnIdEnvelopes \ {"text_qty"} :
           Answered(sent) /\ IngestBegin(h, sent)
    \/ \E h \in Hubs : IngestWrite(h)
    \/ \E h \in Hubs, station_id \in StationIds : ProvisionStation(h, station_id)
    \/ \E h \in Hubs, manifest_id \in ManifestIds :
           CreateManifest(h, "STATION-PARK", manifest_id)

SpecRetry == Init /\ [][NextRetry]_vars

\* the acknowledgement, another packet of its station, the packet of the
\* other station that carries the acknowledgement's packet_id, and an
\* envelope of another type
ReuseEnvelopes == {"ack", "dispense", "reused_id", "wrong_type"}

NextReuse ==
    \/ \E h \in Hubs, sent \in ReuseEnvelopes : IngestBegin(h, sent)
    \/ \E h \in Hubs : IngestWrite(h)
    \/ \E h \in Hubs, station_id \in StationIds : ProvisionStation(h, station_id)

SpecReuse == Init /\ [][NextReuse]_vars

\* ------------------------------------------------------------------------
\* SpecAuth: one HubVerifier and one ReportDecryptor, stations registered
\* and re-registered at any time, reports and envelopes verified at any time
\* ------------------------------------------------------------------------

\* HubVerifier.register_station(station_id, secret_b64)
HubRegisterStation(station_id, secret) ==
    /\ secrets' = RegisterStation(secrets, station_id, secret)
    /\ call' = [op |-> "HubVerifier.register_station", arg |-> station_id,
                result |-> None]
    /\ UNCHANGED <<payload, max_chunk_size, qr, rsm, station_secrets>>
    /\ UNCHANGED <<hubVars, wireVars>>

\* HubVerifier.provision_station(station_id): a secret newly generated
HubProvisionStation(station_id) ==
    /\ \E secret \in GeneratedSecrets :
          /\ secrets' = RegisterStation(secrets, station_id, secret)
          /\ call' = [op |-> "HubVerifier.provision_station", arg |-> station_id,
                      result |-> Returns(secret)]
    /\ UNCHANGED <<payload, max_chunk_size, qr, rsm, station_secrets>>
    /\ UNCHANGED <<hubVars, wireVars>>

\* ReportDecryptor.register_station(station_id, secret_b64)
DecryptorRegisterStation(station_id, secret) ==
    /\ station_secrets' = RegisterStation(station_secrets, station_id, secret)
    /\ call' = [op |-> "ReportDecryptor.register_station", arg |-> station_id,
                result |-> None]
    /\ UNCHANGED <<payload, max_chunk_size, qr, rsm, secrets>>
    /\ UNCHANGED <<hubVars, wireVars>>

\* HubVerifier.verify_report(report)
HubVerifyReportCall(report) ==
    /\ call' = [op |-> "HubVerifier.verify_report", arg |-> report,
                result |-> HubVerifierVerifyReport(secrets, report)]
    /\ UNCHANGED <<payload, max_chunk_size, qr, rsm>>
    /\ UNCHANGED <<hubVars, authVars, wireVars>>

\* ReportDecryptor.verify_report(report)
DecryptorVerifyReportCall(report) ==
    /\ call' = [op |-> "ReportDecryptor.verify_report", arg |-> report,
                result |-> DecryptorVerifyReport(station_secrets, report)]
    /\ UNCHANGED <<payload, max_chunk_size, qr, rsm>>
    /\ UNCHANGED <<hubVars, authVars, wireVars>>

\* ReportDecryptor.decrypt_and_verify(envelope)
DecryptAndVerifyCall(envelope) ==
    /\ call' = [op |-> "ReportDecryptor.decrypt_and_verify", arg |-> envelope,
                result |-> DecryptAndVerify(station_secrets, envelope)]
    /\ UNCHANGED <<payload, max_chunk_size, qr, rsm>>
    /\ UNCHANGED <<hubVars, authVars, wireVars>>

\* logistics_stations holding the stations of a registry, every one active
ProvisionedAs(conn, registry) ==
    [conn EXCEPT !.logistics_stations =
        [s \in DOMAIN registry |->
            [station_secret |-> registry[s]] @@ StationDefaults]]

\* ingest_packet up to its look-up in seen_packets, for a report sealed for
\* the Hub, on a database whose stations are those of the HubVerifier;
\* provision_station stores generated secrets only
IngestVerifyCall(report) ==
    /\ \A s \in DOMAIN secrets : secrets[s] \in GeneratedSecrets
    /\ LET checked == IngestCheck(ProvisionedAs(db, secrets),
                                  EncryptReport([json |-> report]))
       IN  call' = [op |-> "ingest_packet", arg |-> report,
                    result |-> [proceed |-> checked.proceed,
                                response |-> checked.response]]
    /\ UNCHANGED <<payload, max_chunk_size, qr, rsm>>
    /\ UNCHANGED <<hubVars, authVars, wireVars>>

NextAuth ==
    \/ \E station_id \in StationIds, secret \in SecretPool :
           HubRegisterStation(station_id, secret)
    \/ \E station_id \in StationIds : HubProvisionStation(station_id)
    \/ \E station_id \in StationIds, secret \in SecretPool :
           DecryptorRegisterStation(station_id, secret)
    \/ \E report \in VerifierReports : HubVerifyReportCall(report)
    \/ \E report \in VerifierReports : DecryptorVerifyReportCall(report)
    \/ \E envelope \in VerifierEnvelopes : DecryptAndVerifyCall(envelope)
    \/ \E report \in VerifierReports : IngestVerifyCall(report)

SpecAuth == Init /\ [][NextAuth]_vars

\* ------------------------------------------------------------------------
\* SpecSign: the Hub signs one manifest; verifiers of any key are shown it,
\* changed or not
\* ------------------------------------------------------------------------

\* signed = Ed25519Signer(hub_private_key).sign_manifest(manifest)
SignManifestCall(manifest) ==
    /\ packet = None
    /\ packet' = Some(SignManifest(HubSigningKeys.private, manifest))
    /\ call' = [op |-> "sign_manifest", arg |-> manifest, result |-> Returns(packet'[1])]
    /\ UNCHANGED <<payload, max_chunk_size, qr, rsm>>
    /\ UNCHANGED <<hubVars, authVars, builderVars, keyVars>>

\* Ed25519Verifier(public_key_b64).verify_manifest(manifest)
VerifyManifestCall(public_key_b64, manifest) ==
    /\ call' = [op |-> "verify_manifest",
                arg |-> [public_key |-> public_key_b64, manifest |-> manifest],
                result |-> VerifierVerifyManifest(public_key_b64, manifest)]
    /\ UNCHANGED <<payload, max_chunk_size, qr, rsm>>
    /\ UNCHANGED <<hubVars, authVars, wireVars>>

\* verify_data(public_key_b64, data, signature_b64)
VerifyDataCall(public_key_b64, data, signature_b64) ==
    /\ call' = [op |-> "verify_data",
                arg |-> [public_key |-> public_key_b64, data |-> data,
                         signature |-> signature_b64],
                result |-> VerifyData(public_key_b64, data, signature_b64)]
    /\ UNCHANGED <<payload, max_chunk_size, qr, rsm>>
    /\ UNCHANGED <<hubVars, authVars, wireVars>>

\* a verifier is made for its call and keeps nothing of it: a run verifies
\* once, right after the signing
NextSign ==
    \/ \E n \in DOMAIN ManifestInputs : SignManifestCall(ManifestInputs[n])
    \/ /\ call.op = "sign_manifest"
       /\ \E public_key_b64 \in PublicKeysOffered, manifest \in ManifestsOffered(packet[1]) :
              VerifyManifestCall(public_key_b64, manifest)
    \/ /\ call.op = "sign_manifest"
       /\ \E public_key_b64 \in PublicKeysOffered, manifest \in ManifestsOffered(packet[1]) :
              /\ "signature" \in DOMAIN manifest
              /\ VerifyDataCall(public_key_b64, WithoutSignature(manifest),
                                manifest.signature)

SpecSign == Init /\ [][NextSign]_vars

\* ------------------------------------------------------------------------
\* SpecManifest: the Hub builds one manifest and prints its chunks; a
\* station scans them into a fresh reassembler in any order, any of them
\* more than once, parses the payload and verifies it
\* ------------------------------------------------------------------------

\* manifest = ManifestBuilder(hub_private_key).create_manifest(station_id, items)
CreateManifestCall(station_id, items) ==
    /\ packet = None
    /\ packet' = Some(BuilderCreateManifest(HubSigningKeys.private, station_id, items))
    /\ call' = [op |-> "create_manifest", arg |-> station_id, result |-> None]
    /\ UNCHANGED <<payload, max_chunk_size, qr, rsm>>
    /\ UNCHANGED <<hubVars, authVars, builderVars, keyVars>>

\* chunks = builder.to_qr_chunks(manifest)
ToQrChunksCall ==
    /\ packet # None
    /\ qr = <<>>
    /\ payload' = ToDict(packet[1])
    /\ qr' = ToQrChunks(packet[1])
    /\ call' = [op |-> "to_qr_chunks", arg |-> <<>>, result |-> None]
    /\ UNCHANGED <<max_chunk_size, rsm>>
    /\ UNCHANGED <<hubVars, authVars, wireVars>>

\* reassembler.add_chunk(chunks[i]) for any i
AddEmittedChunkCall(i) ==
    LET after == AddChunk(rsm, qr[i]) IN
    /\ rsm' = [chunks |-> after.chunks, total |-> after.total,
               complete |-> after.complete]
    /\ call' = [op |-> "add_chunk", arg |-> i, result |-> None]
    /\ UNCHANGED <<payload, max_chunk_size, qr>>
    /\ UNCHANGED <<hubVars, authVars, wireVars>>

\* reassembler.get_payload_json()
GetPayloadJsonCall ==
    /\ call' = [op |-> "get_payload_json", arg |-> <<>>, result |-> GetPayloadJson(rsm)]
    /\ UNCHANGED <<payload, max_chunk_size, qr, rsm>>
    /\ UNCHANGED <<hubVars, authVars, wireVars>>

\* get_payload_json returned a dict
ParsedADict ==
    /\ call.op = "get_payload_json"
    /\ "returned" \in DOMAIN call.result
    /\ call.result.returned # None

\* the dict it returned
Parsed == call.result.returned[1]

NextManifest ==
    \/ \E n \in DOMAIN ManifestInputs :
           CreateManifestCall(ManifestInputs[n].station_id, ManifestInputs[n].items)
    \/ ToQrChunksCall
    \/ \E i \in 1..Len(qr) : AddEmittedChunkCall(i)
    \/ GetPayloadJsonCall
    \/ /\ ParsedADict
       /\ VerifyManifestCall(HubSigningKeys.public, Parsed)

SpecManifest == Init /\ [][NextManifest]_vars

\* ------------------------------------------------------------------------
\* SpecPrint: the Hub creates and stores one manifest, the printable
\* document is asked for, and the returned and the printed manifest are
\* verified under the Hub's and under another public key
\* ------------------------------------------------------------------------

\* created_at of the stored row, in seconds: NULL, the second of ts, the next
CreatedAtValues(ts) == {None, Some(ts), Some(ts + 1)}

\* the offset of the Hub's local time from UTC, in seconds
UtcOffsets == {0, 28800}

\* POST /manifest: ManifestBuilder.create_manifest and the INSERT
CreateAndStoreManifestCall(station_id, items) ==
    /\ packet = None
    /\ LET manifest == BuilderCreateManifest(HubSigningKeys.private, station_id, items)
       IN  \E created_at \in CreatedAtValues(manifest.ts) :
              packet' = Some([manifest |-> manifest,
                              row |-> ManifestRow(manifest, created_at),
                              printed |-> None])
    /\ call' = [op |-> "create_manifest", arg |-> station_id, result |-> None]
    /\ UNCHANGED <<payload, max_chunk_size, qr, rsm>>
    /\ UNCHANGED <<hubVars, authVars, builderVars, keyVars>>

\* GET /manifest/{manifest_id}/print, a minute after the manifest was made
GetManifestPrintableCall(utc_offset) ==
    /\ packet # None
    /\ packet[1].printed = None
    /\ packet' = Some([packet[1] EXCEPT !.printed =
                    Some(PrintableQrData(
                        RebuiltManifest(packet[1].row, utc_offset,
                                        packet[1].manifest.ts + 60)))])
    /\ call' = [op |-> "get_manifest_printable", arg |-> utc_offset, result |-> None]
    /\ UNCHANGED <<payload, max_chunk_size, qr, rsm>>
    /\ UNCHANGED <<hubVars, authVars, builderVars, keyVars>>

NextPrint ==
    \/ \E n \in DOMAIN ManifestInputs :
           CreateAndStoreManifestCall(ManifestInputs[n].station_id,
                                      ManifestInputs[n].items)
    \/ \E utc_offset \in UtcOffsets : GetManifestPrintableCall(utc_offset)
    \/ \E keys \in {HubSigningKeys, OtherSigningKeys} :
           /\ packet # None
           /\ VerifyManifestCall(keys.public, ToDict(packet[1].manifest))
    \/ \E keys \in {HubSigningKeys, OtherSigningKeys} :
           /\ packet # None
           /\ packet[1].printed # None
           /\ VerifyManifestCall(keys.public, packet[1].printed[1])

SpecPrint == Init /\ [][NextPrint]_vars

\* ------------------------------------------------------------------------
\* SpecAlias: a caller keeps one list of actions, adds to it with the
\* builder's add_..._action methods before and after create_report, and
\* encrypts the report; the Hub opens and verifies the envelope.  The
\* ReportPacket holds the caller's list itself, not a copy: packet holds the
\* list, the report as created, and the envelope.
\* ------------------------------------------------------------------------

\* ActionRecord(type, item_code, qty, person_id).to_dict(): empty fields
\* are left out
ActionRecordToDict(type, item_code, qty, person_id) ==
    LET base == [type |-> type, ts |-> 1735689600]
        coded == IF item_code # "" THEN base @@ [item_code |-> item_code] ELSE base
        counted == IF qty # 0 THEN coded @@ [qty |-> [num |-> qty], unit |-> "unit"]
                   ELSE coded
    IN  IF person_id # "" THEN counted @@ [person_id |-> person_id] ELSE counted

\* add_dispense_action, add_receive_action and add_register_action:
\* actions.append(...) on the list the caller passed
AddAction(actions, kind) ==
    Append(actions,
           IF kind = "DISPENSE" THEN ActionRecordToDict("DISPENSE", "WATER", 2, "P-1")
           ELSE IF kind = "RECEIVE" THEN ActionRecordToDict("RECEIVE", "WATER", 10, "")
           ELSE ActionRecordToDict("REGISTER", "", 0, "P-1"))

\* the ReportPacket read through its reference to the caller's list:
\* report.actions is the list as it is now, report.hmac as create_report set it
ReportRead(report, actions) == [report EXCEPT !.actions = actions]

\* actions = []
NewActionListCall ==
    /\ packet = None
    /\ packet' = Some([actions |-> <<>>, report |-> None, envelope |-> None])
    /\ call' = [op |-> "list", arg |-> <<>>, result |-> None]
    /\ UNCHANGED <<payload, max_chunk_size, qr, rsm>>
    /\ UNCHANGED <<hubVars, authVars, builderVars, keyVars>>

\* builder.add_dispense_action(actions, ...) and its two siblings
AddActionCall(kind) ==
    /\ packet # None
    /\ Len(packet[1].actions) < MaxAppends
    /\ packet' = Some([packet[1] EXCEPT !.actions = AddAction(@, kind)])
    /\ call' = [op |-> "add_action", arg |-> kind, result |-> None]
    /\ UNCHANGED <<payload, max_chunk_size, qr, rsm>>
    /\ UNCHANGED <<hubVars, authVars, builderVars, keyVars>>

\* report = builder.create_report(actions, packet_id="RPT-001")
AliasCreateReportCall ==
    /\ packet # None
    /\ packet[1].report = None
    /\ packet' = Some([packet[1] EXCEPT !.report =
                    Some(BuilderCreateReport(Builders.park.station_id,
                                             Builders.park.secret, 0,
                                             packet[1].actions).returned)])
    /\ call' = [op |-> "create_report", arg |-> <<>>, result |-> None]
    /\ UNCHANGED <<payload, max_chunk_size, qr, rsm>>
    /\ UNCHANGED <<hubVars, authVars, builderVars, keyVars>>

\* envelope = builder.encrypt_report(report): report.to_dict() is taken now
AliasEncryptReportCall ==
    /\ packet # None
    /\ packet[1].report # None
    /\ packet[1].envelope = None
    /\ packet' = Some([packet[1] EXCEPT !.envelope =
                    Some(BuilderEncryptReport(
                            Builders.park.public_key,
                            ReportToDict(ReportRead(packet[1].report[1],
                                                    packet[1].actions))))])
    /\ call' = [op |-> "encrypt_report", arg |-> <<>>, result |-> None]
    /\ UNCHANGED <<payload, max_chunk_size, qr, rsm>>
    /\ UNCHANGED <<hubVars, authVars, builderVars, keyVars>>

\* the Hub, with the station registered: decryptor.decrypt_and_verify(envelope)
AliasDecryptAndVerifyCall ==
    /\ packet # None
    /\ packet[1].envelope # None
    /\ call' = [op |-> "ReportDecryptor.decrypt_and_verify",
                arg |-> packet[1].envelope[1],
                result |-> DecryptAndVerify(
                              RegisterStation(<<>>, Builders.park.station_id,
                                              Builders.park.secret),
                              packet[1].envelope[1])]
    /\ UNCHANGED <<payload, max_chunk_size, qr, rsm>>
    /\ UNCHANGED <<hubVars, authVars, wireVars>>

NextAlias ==
    \/ NewActionListCall
    \/ \E kind \in {"DISPENSE", "RECEIVE", "REGISTER"} : AddActionCall(kind)
    \/ AliasCreateReportCall
    \/ AliasEncryptReportCall
    \/ AliasDecryptAndVerifyCall

SpecAlias == Init /\ [][NextAlias]_vars

\* ------------------------------------------------------------------------
\* SpecReport: a station builds one report, encrypts and chunks it; the Hub
\* scans the chunks in any order, parses the envelope and hands it to a
\* decryptor with which STATION-PARK was or was not registered
\* ------------------------------------------------------------------------

\* report = ReportBuilder(station_id, secret, key).create_report(actions, packet_id="RPT-001")
CreateReportCall(station_id, actions) ==
    LET made == BuilderCreateReport(station_id, GenerateStationSecret(station_id),
                                    0, actions) IN
    /\ packet = None
    /\ packet' = IF "raised" \in DOMAIN made THEN None ELSE Some(made.returned)
    /\ call' = [op |-> "create_report", arg |-> station_id, result |-> None]
    /\ UNCHANGED <<payload, max_chunk_size, qr, rsm>>
    /\ UNCHANGED <<hubVars, authVars, builderVars, keyVars>>

\* chunks = builder.to_encrypted_chunks(report), the builder made with
\* hub_public_key_b64
ToEncryptedChunksCall(hub_public_key_b64) ==
    /\ packet # None
    /\ qr = <<>>
    /\ payload' = BuilderEncryptReport(hub_public_key_b64, ReportToDict(packet[1]))
    /\ qr' = ToEncryptedChunks(hub_public_key_b64, packet[1])
    /\ call' = [op |-> "to_encrypted_chunks", arg |-> <<>>, result |-> None]
    /\ UNCHANGED <<max_chunk_size, rsm>>
    /\ UNCHANGED <<hubVars, authVars, wireVars>>

\* stations are registered before the report is built
NextReport ==
    \/ /\ packet = None
       /\ \E secret \in SecretPool : DecryptorRegisterStation("STATION-PARK", secret)
    \/ \E station_id \in StationIds, n \in DOMAIN ActionCounts :
           CreateReportCall(station_id, DispenseActions(ActionCounts[n]))
    \/ \E k \in DOMAIN EncryptionPublicKeys : ToEncryptedChunksCall(EncryptionPublicKeys[k])
    \/ \E i \in 1..Len(qr) : AddEmittedChunkCall(i)
    \/ GetPayloadJsonCall
    \/ /\ ParsedADict
       /\ DecryptAndVerifyCall(Parsed)

SpecReport == Init /\ [][NextReport]_vars

\* ------------------------------------------------------------------------
\* SpecBox: boxes of every kind encrypt plaintexts and reports; any box is
\* handed the ciphertext or envelope made last, changed or not, or a foreign
\* text, to decrypt
\* ------------------------------------------------------------------------

\* what an encryption left behind: the plaintext, the flag, the box, the
\* ciphertext, and the envelope of encrypt_report
Sealed(box, plaintext, compress, ciphertext, envelope) ==
    Some([box |-> box, plaintext |-> plaintext, compress |-> compress,
          ciphertext |-> ciphertext, envelope |-> envelope])

\* box.encrypt(plaintext, compress)
BoxEncryptCall(box, plaintext, compress) ==
    LET made == BoxEncrypt(box, plaintext, compress) IN
    /\ call' = [op |-> "encrypt",
                arg |-> [box |-> box, plaintext |-> plaintext, compress |-> compress],
                result |-> made]
    /\ packet' = IF "raised" \in DOMAIN made THEN None
                 ELSE Sealed(box, plaintext, compress, made.returned, None)
    /\ UNCHANGED <<payload, max_chunk_size, qr, rsm>>
    /\ UNCHANGED <<hubVars, authVars, builderVars, keyVars>>

\* box.encrypt_report(report)
BoxEncryptReportCall(box, report) ==
    LET made == BoxEncryptReport(box, report) IN
    /\ call' = [op |-> "encrypt_report", arg |-> [box |-> box, report |-> report],
                result |-> made]
    /\ packet' = IF "raised" \in DOMAIN made THEN None
                 ELSE Sealed(box, [dict |-> report], TRUE, made.returned.payload,
                             Some(made.returned))
    /\ UNCHANGED <<payload, max_chunk_size, qr, rsm>>
    /\ UNCHANGED <<hubVars, authVars, builderVars, keyVars>>

\* box.decrypt(ciphertext_b64, decompress)
BoxDecryptCall(box, ciphertext_b64, decompress) ==
    /\ call' = [op |-> "decrypt",
                arg |-> [box |-> box, ciphertext |-> ciphertext_b64,
                         decompress |-> decompress],
                result |-> BoxDecrypt(box, ciphertext_b64, decompress)]
    /\ UNCHANGED <<payload, max_chunk_size, qr, rsm>>
    /\ UNCHANGED <<hubVars, authVars, wireVars>>

\* box.decrypt_json(ciphertext_b64)
BoxDecryptJsonCall(box, ciphertext_b64) ==
    /\ call' = [op |-> "decrypt_json",
                arg |-> [box |-> box, ciphertext |-> ciphertext_b64],
                result |-> BoxDecryptJson(box, ciphertext_b64)]
    /\ UNCHANGED <<payload, max_chunk_size, qr, rsm>>
    /\ UNCHANGED <<hubVars, authVars, wireVars>>

\* box.decrypt_report(envelope)
BoxDecryptReportCall(box, envelope) ==
    /\ call' = [op |-> "decrypt_report", arg |-> [box |-> box, envelope |-> envelope],
                result |-> BoxDecryptReport(box, envelope)]
    /\ UNCHANGED <<payload, max_chunk_size, qr, rsm>>
    /\ UNCHANGED <<hubVars, authVars, wireVars>>

\* the ciphertexts a box can be handed once something was sealed
CiphertextsOffered == {packet[1].ciphertext} \cup ForeignCiphertexts

\* something was sealed by the call before
JustSealed == packet # None /\ call.op \in {"encrypt", "encrypt_report"}

\* the methods of a box are functions of its keys and their arguments: a run
\* seals once and decrypts once
NextBox ==
    \/ /\ call.op = "new"
       /\ \E b \in DOMAIN Boxes, plaintext \in Plaintexts, compress \in BOOLEAN :
              BoxEncryptCall(Boxes[b], plaintext, compress)
    \/ /\ call.op = "new"
       /\ \E b \in DOMAIN Boxes, report \in BoxDicts :
              BoxEncryptReportCall(Boxes[b], report)
    \/ /\ JustSealed
       /\ \E b \in DOMAIN Boxes, c \in CiphertextsOffered, decompress \in BOOLEAN :
              BoxDecryptCall(Boxes[b], c, decompress)
    \/ /\ JustSealed
       /\ \E b \in DOMAIN Boxes, c \in CiphertextsOffered : BoxDecryptJsonCall(Boxes[b], c)
    \/ /\ JustSealed
       /\ packet[1].envelope # None
       /\ \E b \in DOMAIN Boxes, envelope \in EnvelopeChanges(packet[1].envelope[1]) :
              BoxDecryptReportCall(Boxes[b], envelope)

SpecBox == Init /\ [][NextBox]_vars

\* ------------------------------------------------------------------------
\* SpecBuilders: several ReportBuilder instances in one process create
\* reports and acknowledgements and encrypt them, in any order
\* ------------------------------------------------------------------------

\* what a call of create_report or create_manifest_ack on builder b leaves:
\* the counter is counted up before the HMAC is computed, so also when
\* compute_hmac raises
Created(b, op, result) ==
    /\ seq_counter[b] < MaxReports
    /\ seq_counter' = [seq_counter EXCEPT ![b] = @ + 1]
    /\ reports' = IF "raised" \in DOMAIN result THEN reports
                  ELSE [reports EXCEPT ![b] = Append(@, result.returned)]
    /\ call' = [op |-> op, arg |-> b, result |-> result]
    /\ UNCHANGED <<payload, max_chunk_size, qr, rsm, packet, enveloped>>
    /\ UNCHANGED <<hubVars, authVars, keyVars>>

\* builder.create_report(actions, packet_id="RPT-001")
BuilderCreateReportCall(b, actions) ==
    Created(b, "create_report",
            BuilderCreateReport(Builders[b].station_id, Builders[b].secret,
                                seq_counter[b], actions))

\* builder.create_manifest_ack(manifest_id, items_received)
BuilderCreateManifestAckCall(b, manifest_id, items_received) ==
    Created(b, "create_manifest_ack",
            BuilderCreateManifestAck(Builders[b].station_id, Builders[b].secret,
                                     seq_counter[b], manifest_id, items_received))

\* builder.encrypt_report(report) for the i-th report the builder made; the
\* envelope made before this one is kept next to it
BuilderEncryptReportCall(b, i) ==
    LET envelope == BuilderEncryptReport(Builders[b].public_key,
                                         ReportToDict(reports[b][i]))
        entry == [builder |-> b, report |-> reports[b][i], envelope |-> envelope]
    IN  /\ enveloped' = IF enveloped = <<>> THEN <<entry>>
                        ELSE <<enveloped[Len(enveloped)], entry>>
        /\ call' = [op |-> "encrypt_report", arg |-> b, result |-> Returns(envelope)]
        /\ UNCHANGED <<payload, max_chunk_size, qr, rsm, packet, seq_counter, reports>>
        /\ UNCHANGED <<hubVars, authVars, keyVars>>

NextBuilders ==
    \/ \E b \in DOMAIN Builders, n \in 1..2 :
           BuilderCreateReportCall(b, DispenseActions(n))
    \/ \E b \in DOMAIN Builders :
           BuilderCreateManifestAckCall(b, "M-20250101-ABC123", ItemsReceived)
    \/ \E b \in DOMAIN Builders : \E i \in 1..Len(reports[b]) :
           BuilderEncryptReportCall(b, i)

SpecBuilders == Init /\ [][NextBuilders]_vars

\* ------------------------------------------------------------------------
\* SpecHmac: a report is tagged by add_hmac_to_report; the tagged report,
\* as it is, reordered or changed, is checked by verify_report_hmac under
\* the same and under other secrets
\* ------------------------------------------------------------------------

\* tagged = add_hmac_to_report(secret, report)
AddHmacCall(secret, report) ==
    LET tagged == AddHmacToReport(secret, report) IN
    /\ packet = None
    /\ call.op = "new"
    /\ packet' = IF "raised" \in DOMAIN tagged THEN None
                 ELSE Some([secret |-> secret, report |-> tagged.returned])
    /\ call' = [op |-> "add_hmac_to_report",
                arg |-> [secret |-> secret, report |-> report], result |-> tagged]
    /\ UNCHANGED <<payload, max_chunk_size, qr, rsm>>
    /\ UNCHANGED <<hubVars, authVars, builderVars, keyVars>>

\* verify_report_hmac(secret, report)
VerifyReportHmacCall(secret, report) ==
    /\ call' = [op |-> "verify_report_hmac",
                arg |-> [secret |-> secret, report |-> report],
                result |-> VerifyReportHmacOfDict(secret, report)]
    /\ UNCHANGED <<payload, max_chunk_size, qr, rsm, packet>>
    /\ UNCHANGED <<hubVars, authVars, builderVars, keyVars>>

\* the tagged report was not yet handed on
JustTagged == packet # None /\ call.op = "add_hmac_to_report"

NextHmac ==
    \/ \E secret \in HmacSecrets, n \in DOMAIN HmacReports :
           AddHmacCall(secret, HmacReports[n])
    \/ JustTagged /\ \E secret \in HmacSecrets \ {MalformedSecret} :
           VerifyReportHmacCall(secret, packet[1].report)
    \/ JustTagged /\ \E report \in Reorderings(packet[1].report) :
           VerifyReportHmacCall(packet[1].secret, report)
    \/ JustTagged /\ \E report \in ReportFieldChanges(packet[1].report) :
           VerifyReportHmacCall(packet[1].secret, report)
    \/ JustTagged /\ \E report \in HmacChanges(packet[1].report) :
           VerifyReportHmacCall(packet[1].secret, report)
    \/ JustTagged /\ VerifyReportHmacCall(packet[1].secret,
                                          WithoutHmac(packet[1].report))

SpecHmac == Init /\ [][NextHmac]_vars

\* ------------------------------------------------------------------------
\* SpecKeys: the Hub processes enter get_or_create_hub_keys, as every
\* logistics endpoint does first, at any time and any number of times
\* ------------------------------------------------------------------------

\* the place after the statements on key_type
AfterKey(key_type) == IF key_type = "signing" THEN "select_encryption" ELSE "commit"

\* an endpoint of process h calls get_or_create_hub_keys(conn)
KeysEnter(h) ==
    /\ key_call[h].pc = "idle"
    /\ key_call' = [key_call EXCEPT ![h].pc = "select_signing", ![h].keys = <<>>]
    /\ call' = [op |-> "endpoint", arg |-> h, result |-> None]
    /\ UNCHANGED <<payload, max_chunk_size, qr, rsm, packet, hub_keys, key_txn,
                   keys_returned>>
    /\ UNCHANGED <<hubVars, authVars, builderVars>>

\* the SELECT for key_type and the branch on its row: the row's keys are
\* taken, or a keypair is generated for the INSERT
KeysSelect(h, key_type) ==
    /\ key_call[h].pc = "select_" \o key_type
    /\ LET row == SelectHubKey(VisibleRows(hub_keys, key_txn, h), key_type) IN
       IF row # None
       THEN key_call' = [key_call EXCEPT
                ![h].pc = AfterKey(key_type),
                ![h].keys = WithKeys(@, key_type, row[1].private_key, row[1].public_key)]
       ELSE key_call' = [key_call EXCEPT
                ![h].pc = "insert_" \o key_type,
                ![h].pending = Some(GenerateHubKey(key_type,
                                        RandomDraw(h, key_call[h].drawn))),
                ![h].drawn = @ + 1]
    /\ call' = [op |-> "select", arg |-> h, result |-> None]
    /\ UNCHANGED <<payload, max_chunk_size, qr, rsm, packet, hub_keys, key_txn,
                   keys_returned>>
    /\ UNCHANGED <<hubVars, authVars, builderVars>>

\* the INSERT for key_type, once no other connection is writing: the row is
\* added to the transaction, or IntegrityError leaves get_or_create_hub_keys
\* and the endpoint, and get_db rolls back
KeysInsert(h, key_type) ==
    /\ key_call[h].pc = "insert_" \o key_type
    /\ key_txn.writer \in {None, Some(h)}
    /\ LET pair == key_call[h].pending[1]
           inserted == InsertHubKey(VisibleRows(hub_keys, key_txn, h), key_type, pair)
       IN  IF inserted.raised
           THEN /\ key_txn' = [writer |-> None, rows |-> <<>>]
                /\ key_call' = [key_call EXCEPT ![h].pc = "idle", ![h].keys = <<>>,
                                                ![h].pending = None]
                /\ call' = [op |-> "get_or_create_hub_keys", arg |-> h,
                            result |-> Raises("sqlite3.IntegrityError")]
           ELSE /\ key_txn' = [writer |-> Some(h),
                               rows |-> SubSeq(inserted.conn, Len(hub_keys) + 1,
                                               Len(inserted.conn))]
                /\ key_call' = [key_call EXCEPT
                       ![h].pc = AfterKey(key_type), ![h].pending = None,
                       ![h].keys = WithKeys(@, key_type, pair.private, pair.public)]
                /\ call' = [op |-> "insert", arg |-> h, result |-> None]
    /\ UNCHANGED <<payload, max_chunk_size, qr, rsm, packet, hub_keys, keys_returned>>
    /\ UNCHANGED <<hubVars, authVars, builderVars>>

\* conn.commit() and return keys
KeysCommit(h) ==
    /\ key_call[h].pc = "commit"
    /\ IF key_txn.writer = Some(h)
       THEN /\ hub_keys' = hub_keys \o key_txn.rows
            /\ key_txn' = [writer |-> None, rows |-> <<>>]
       ELSE UNCHANGED <<hub_keys, key_txn>>
    /\ keys_returned' = keys_returned \cup {key_call[h].keys}
    /\ key_call' = [key_call EXCEPT ![h].pc = "idle", ![h].keys = <<>>]
    /\ call' = [op |-> "get_or_create_hub_keys", arg |-> h,
                result |-> Returns(key_call[h].keys)]
    /\ UNCHANGED <<payload, max_chunk_size, qr, rsm, packet>>
    /\ UNCHANGED <<hubVars, authVars, builderVars>>

NextKeys ==
    \/ \E h \in Hubs : KeysEnter(h)
    \/ \E h \in Hubs, k \in DOMAIN KeyTypes : KeysSelect(h, KeyTypes[k])
    \/ \E h \in Hubs, k \in DOMAIN KeyTypes : KeysInsert(h, KeyTypes[k])
    \/ \E h \in Hubs : KeysCommit(h)

SpecKeys == Init /\ [][NextKeys]_vars

\* ------------------------------------------------------------------------
\* Ingestion claims
\* ------------------------------------------------------------------------

\* the tables the ingestion claims speak of
IngestTables(conn) ==
    [inventory |-> conn.inventory,
     manifest_status |-> [m \in DOMAIN conn.logistics_manifests |->
                             conn.logistics_manifests[m].status],
     seen_packets |-> conn.seen_packets,
     last_seq_id |-> [s \in DOMAIN conn.logistics_stations |->
                         conn.logistics_stations[s].last_seq_id]]

\* the report an envelope carries, when it carries one
CarriesReport(sent) == "json" \in DOMAIN EnvelopeOf[sent].payload.plain

PacketIds == {"PKT-1", "PKT-2", "PKT-3", "PKT-4", "PKT-5", "PKT-6", "PKT-7"}

\* the envelopes that carry a report with a given packet_id
Carrying ==
    [packet_id \in PacketIds |->
        {sent \in Envelopes :
            /\ CarriesReport(sent)
            /\ GetOr(ReportOf(EnvelopeOf[sent]), "packet_id", "") = packet_id}]

\* an answer "processed": success, not a duplicate
IsNew(answer) == answer.status_code = 200 /\ answer.success /\ ~answer.is_duplicate

\* an answer "duplicate ignored": success, a duplicate
IsDuplicate(answer) == answer.status_code = 200 /\ answer.success /\ answer.is_duplicate

\* the call with this envelope is answered in this step
Answers(sent) == Len(answers'[sent]) = Len(answers[sent]) + 1

TheAnswer(sent) == answers'[sent][Len(answers'[sent])]

\* the audit rows of an event for a packet
Rows(conn, event_type, report) ==
    CopiesIn(AuditRow(event_type, report.station_id, report.packet_id, ""),
             conn.logistics_audit)

\* what one application of a list of actions makes of the inventory:
\* RECEIVE adds to a listed item, DISPENSE takes from it down to zero
RECURSIVE StockAfter(_, _, _)
StockAfter(inventory, actions, i) ==
    IF i > Len(actions) THEN inventory
    ELSE LET a == actions[i]
             listed == "item_code" \in DOMAIN a /\ a.item_code \in DOMAIN inventory
         IN  StockAfter(
                 IF listed /\ a.type = "RECEIVE"
                 THEN [inventory EXCEPT ![a.item_code] = @ + a.qty.num]
                 ELSE IF listed /\ a.type = "DISPENSE"
                 THEN [inventory EXCEPT ![a.item_code] =
                          IF @ > a.qty.num THEN @ - a.qty.num ELSE 0]
                 ELSE inventory,
                 actions, i + 1)

\* the manifests a list of actions acknowledges
Acknowledged(actions) ==
    {actions[i].manifest_id : i \in {j \in 1..Len(actions) :
        actions[j].type = "RECEIVE" /\ "manifest_id" \in DOMAIN actions[j]}}

\* every action of the report has its audit row once
ActionsAuditedOnce(conn, report) ==
    \A t \in {"RECEIVE", "DISPENSE", "REGISTER"} :
        Rows(conn, "ACTION_" \o t, report)
            = Cardinality({i \in 1..Len(report.actions) : report.actions[i].type = t})

\* the tables after the step are the tables before it with the report
\* recorded, the marker advanced and the actions applied once
AppliedOnce(before, after, report) ==
    /\ report.packet_id \notin DOMAIN before.seen_packets
    /\ DOMAIN after.seen_packets = DOMAIN before.seen_packets \cup {report.packet_id}
    /\ after.seen_packets[report.packet_id].station_id = report.station_id
    /\ \A p \in DOMAIN before.seen_packets :
          after.seen_packets[p] = before.seen_packets[p]
    /\ after.inventory = StockAfter(before.inventory, report.actions, 1)
    /\ \A m \in DOMAIN before.logistics_manifests :
          after.logistics_manifests[m].status =
              IF m \in Acknowledged(report.actions) THEN "ACKNOWLEDGED"
              ELSE before.logistics_manifests[m].status
    /\ \A s \in DOMAIN before.logistics_stations :
          after.logistics_stations[s].last_seq_id =
              IF s = report.station_id /\ report.seq_id > before.logistics_stations[s].last_seq_id
              THEN report.seq_id
              ELSE before.logistics_stations[s].last_seq_id

\* C1. Idempotent ingestion: of the calls made with the envelope of an
\* authenticated report, in any interleaving with the ingestion of other
\* packets, the first is answered is_duplicate=false and applies the actions
\* once; every later one is answered success=true, is_duplicate=true and
\* changes no inventory quantity, manifest status, seen_packets row or
\* last_seq_id; so after n >= 1 calls the actions have been applied exactly once.
C1_IdempotentIngestion ==
    /\ [](\A sent \in AuthenticEnvelopes :
            answers[sent] # <<>> =>
                /\ IsNew(answers[sent][1])
                /\ \A i \in 2..Len(answers[sent]) : IsDuplicate(answers[sent][i])
                /\ Rows(db, "INGEST_SUCCESS", ReportOf(EnvelopeOf[sent])) = 1
                /\ ActionsAuditedOnce(db, ReportOf(EnvelopeOf[sent])))
    /\ [][\A sent \in AuthenticEnvelopes :
            Answers(sent) =>
                IF answers[sent] = <<>>
                THEN AppliedOnce(db, db', ReportOf(EnvelopeOf[sent]))
                ELSE IngestTables(db') = IngestTables(db)]_vars

\* the acknowledgement was sent twice and another packet once
C1_Witness ==
    /\ Len(answers["ack"]) = 2
    /\ IsDuplicate(answers["ack"][2])
    /\ Len(answers["dispense"]) = 1
    /\ db.inventory["generator"] = 0
    /\ "MF-1" \in DOMAIN db.logistics_manifests
    /\ db.logistics_manifests["MF-1"].status = "ACKNOWLEDGED"

\* the envelope is of the right type, opens, and carries a report of a
\* registered active station with the tag of that station's secret
Authenticated(conn, envelope) ==
    /\ envelope.type = "ENCRYPTED_REPORT"
    /\ envelope.payload.sealed_for = HubKeys.encryption_public
    /\ "json" \in DOMAIN envelope.payload.plain
    /\ LET report == envelope.payload.plain.json IN
       /\ {"packet_id", "station_id", "hmac"} \subseteq DOMAIN report
       /\ report.station_id \in DOMAIN conn.logistics_stations
       /\ conn.logistics_stations[report.station_id].is_active = 1
       /\ report.hmac =
             ComputeHmac(conn.logistics_stations[report.station_id].station_secret,
                         [k \in (DOMAIN report) \ {"hmac"} |-> report[k]])

\* C2. No unauthenticated effect: ingest_packet changes inventory, manifest
\* status, seen_packets or last_seq_id only for an envelope of type
\* ENCRYPTED_REPORT that decrypts to a report of a registered station with
\* is_active = 1 whose hmac is the HMAC of its other fields under the
\* station's secret, as the call finds them; a call with any other envelope
\* changes none of these tables.
C2_NoUnauthenticatedEffect ==
    [][/\ \A h \in Hubs :
            (~db_lock[h] /\ db_lock'[h]) =>
                Authenticated(db, EnvelopeOf[request'[h][1]])
       /\ \A sent \in Envelopes :
            (Answers(sent) /\ IngestTables(db') # IngestTables(db)) =>
                \E h \in Hubs : db_lock[h] /\ ~db_lock'[h] /\ request[h] = Some(sent)
       /\ \A sent \in Envelopes :
            (Answers(sent) /\ ~\E h \in Hubs : db_lock[h] /\ ~db_lock'[h]) =>
                (Authenticated(db, EnvelopeOf[sent]) \/ ~IsDuplicate(TheAnswer(sent)))
      ]_vars

\* a tampered report and a report of a deactivated station were turned away;
\* the genuine acknowledgement was applied
C2_Witness ==
    /\ answers["tampered"] # <<>>
    /\ answers["gate"] # <<>>
    /\ answers["gate"][1].status_code = 404
    /\ answers["ack"] # <<>>
    /\ db.inventory["generator"] = 3
    /\ DOMAIN db.seen_packets = {"PKT-1"}

\* at most one answer "processed" has been given for the packet_id
AtMostOneNew(packet_id) ==
    \A sent \in Carrying[packet_id], other \in Carrying[packet_id] :
        \A i \in DOMAIN answers[sent], j \in DOMAIN answers[other] :
            (IsNew(answers[sent][i]) /\ IsNew(answers[other][j])) =>
                (sent = other /\ i = j)

\* C3. At-most-once under concurrency: when requests with the same new
\* packet_id are processed concurrently, by one Hub process or by two on
\* the same database, the packet is recorded and its actions are applied at
\* most once, and at most one request is answered is_duplicate=false.
C3_AtMostOnce ==
    /\ [](\A packet_id \in PacketIds :
            /\ AtMostOneNew(packet_id)
            /\ \A sent \in Carrying[packet_id] :
                  /\ Rows(db, "INGEST_SUCCESS", ReportOf(EnvelopeOf[sent])) <= 1
                  /\ \A t \in {"RECEIVE", "DISPENSE"} :
                        Rows(db, "ACTION_" \o t, ReportOf(EnvelopeOf[sent]))
                            <= Len(ReportOf(EnvelopeOf[sent]).actions))
    /\ [][\A h \in Hubs :
            (db_lock[h] /\ ~db_lock'[h] /\ IngestTables(db') # IngestTables(db)) =>
                LET packet_id == ReportOf(EnvelopeOf[request[h][1]]).packet_id IN
                /\ packet_id \notin DOMAIN db.seen_packets
                /\ packet_id \in DOMAIN db'.seen_packets]_vars

\* both Hub processes were in ingest_packet with the same new packet: one
\* was answered "processed", the other failed on seen_packets
C3_Witness ==
    /\ Len(answers["ack"]) = 2
    /\ IsNew(answers["ack"][1])
    /\ answers["ack"][2].status_code = 500
    /\ db.inventory["generator"] = 3

\* the highest seq_id among the recorded packets of a station, 0 without any
RECURSIVE HighestSeq(_, _)
HighestSeq(station_id, sents) ==
    IF sents = {} THEN 0
    ELSE LET sent == CHOOSE x \in sents : TRUE
             report == ReportOf(EnvelopeOf[sent])
             rest == HighestSeq(station_id, sents \ {sent})
         IN  IF /\ report.station_id = station_id
                /\ report.packet_id \in DOMAIN db.seen_packets
                /\ report.seq_id > rest
             THEN report.seq_id ELSE rest

\* the envelopes whose report reaches the INSERT into seen_packets
Admissible == AuthenticEnvelopes \cup {"text_qty"}

\* C4. Record-with-apply atomicity: in every committed state a packet_id is
\* in seen_packets exactly when its actions have been applied and the marker
\* of its station advanced; a call that fails after the INSERT into
\* seen_packets leaves no row, no marker update and no applied action
\* behind, so a retry of the packet is processed as new.
C4_RecordWithApply ==
    /\ [](/\ \A sent \in Admissible :
               LET report == ReportOf(EnvelopeOf[sent]) IN
               IF report.packet_id \in DOMAIN db.seen_packets
               THEN /\ Rows(db, "INGEST_SUCCESS", report) = 1
                    /\ ActionsAuditedOnce(db, report)
               ELSE /\ Rows(db, "INGEST_SUCCESS", report) = 0
                    /\ \A t \in {"RECEIVE", "DISPENSE", "REGISTER"} :
                          Rows(db, "ACTION_" \o t, report) = 0
          /\ \A s \in DOMAIN db.logistics_stations :
               db.logistics_stations[s].last_seq_id = HighestSeq(s, Admissible))
    /\ [][\A h \in Hubs :
            (db_lock[h] /\ ~db_lock'[h]) =>
                LET sent == request[h][1] IN
                IF IsNew(TheAnswer(sent))
                THEN AppliedOnce(db, db', ReportOf(EnvelopeOf[sent]))
                ELSE /\ TheAnswer(sent).status_code = 500
                     /\ db' = db]_vars

\* ingest_packet failed on the second action of a packet, twice: nothing of
\* the packet is in the database
C4_Witness ==
    /\ Len(answers["text_qty"]) = 2
    /\ answers["text_qty"][1].status_code = 500
    /\ answers["text_qty"][2].status_code = 500
    /\ "PKT-3" \notin DOMAIN db.seen_packets
    /\ db.inventory = SeededInventory
    /\ db.logistics_stations["STATION-PARK"].last_seq_id = 0

\* ------------------------------------------------------------------------
\* Chunking claims
\* ------------------------------------------------------------------------

\* the reassembler holds fragments of the emitted chunk set only, for the
\* sequence numbers in its buffer, and is not complete
HoldsEmitted(r) ==
    /\ ~r.complete
    /\ (r.chunks = <<>> => r = FreshReassembler)
    /\ (r.chunks # <<>> => r.total = Some(Len(qr)))
    /\ \A i \in DOMAIN r.chunks :
          i \in 1..Len(qr) /\ ChunkString(i, Len(qr), r.chunks[i]) = qr[i]

\* ... and they are exactly the first k emitted chunks
HoldsFirst(r, k) == HoldsEmitted(r) /\ DOMAIN r.chunks = 1..k

\* C5. Chunk round-trip: feeding the chunks of chunk(b), for a chunk size of
\* at least 64, in emitted order to a fresh reassembler returns None for every
\* chunk but the last, the bytes b for the last, and get_payload() is then b.
C5_RoundTrip ==
    [][\A k \in 1..Len(qr) :
          (/\ HoldsFirst(rsm, k - 1)
           /\ call'.op = "add_chunk"
           /\ call'.arg = qr[k])
          => IF k = Len(qr)
             THEN /\ call'.result = Some(payload)
                  /\ GetPayload(rsm') = Some(payload)
             ELSE /\ call'.result = None
                  /\ HoldsFirst(rsm', k)]_vars

\* a three-chunk payload has been delivered, its last chunk last
C5_Witness ==
    /\ Len(qr) = 3
    /\ max_chunk_size = MinChunkSize
    /\ call.op = "add_chunk"
    /\ call.arg = qr[3]
    /\ call.result = Some(payload)
    /\ rsm.complete

\* C6. Order independence: whatever the order in which the chunks of one
\* chunk set reach a fresh reassembler, add_chunk returns None until the last
\* distinct sequence arrives, and the payload b on the call that delivers it.
C6_OrderIndependence ==
    [][\A k \in 1..Len(qr) :
          (/\ HoldsEmitted(rsm)
           /\ k \notin DOMAIN rsm.chunks
           /\ call'.op = "add_chunk"
           /\ call'.arg = qr[k])
          => IF (DOMAIN rsm.chunks) \cup {k} = 1..Len(qr)
             THEN /\ call'.result = Some(payload)
                  /\ rsm'.complete
             ELSE /\ call'.result = None
                  /\ HoldsEmitted(rsm')
                  /\ DOMAIN rsm'.chunks = (DOMAIN rsm.chunks) \cup {k}]_vars

\* a three-chunk payload completed by its first chunk, delivered last
C6_Witness ==
    /\ Len(qr) = 3
    /\ call.op = "add_chunk"
    /\ call.arg = qr[1]
    /\ call.result = Some(payload)
    /\ rsm.complete
    /\ qr[1] # qr[2]

\* C7. Duplicate-chunk tolerance: adding again a chunk that a not yet complete
\* reassembler has accepted returns None and leaves progress, the missing
\* sequences and the stored fragments as they were; and no call returns a
\* payload unless every sequence 1..total is stored.
C7_DuplicateTolerance ==
    [][/\ (/\ ~rsm.complete
           /\ rsm.total # None
           /\ call'.op = "add_chunk"
           /\ \E k \in DOMAIN rsm.chunks :
                 call'.arg = ChunkString(k, rsm.total[1], rsm.chunks[k]))
          => /\ call'.result = None
             /\ rsm'.chunks = rsm.chunks
             /\ Progress(rsm') = Progress(rsm)
             /\ MissingSequences(rsm') = MissingSequences(rsm)
             /\ ~rsm'.complete
       /\ (call'.op = "add_chunk" /\ call'.result # None)
          => DOMAIN rsm'.chunks = 1..rsm'.total[1]]_vars

\* the second of three chunks has just been scanned a second time
C7_Witness ==
    /\ Len(qr) = 3
    /\ call.op = "add_chunk"
    /\ call.arg = qr[2]
    /\ call.result = None
    /\ DOMAIN rsm.chunks = {2}
    /\ Progress(rsm) = <<1, 3>>

\* C8. Malformed chunk rejection: add_chunk with a string that has a wrong
\* tag, fewer than three parts, a non-integer sequence or total, sequence < 1
\* or sequence > total returns None, raises nothing and leaves the fragments,
\* the expected total and the completion flag as they were.
C8_MalformedRejected ==
    [][(call'.op = "add_chunk" /\ call'.arg \in MalformedChunks)
          => /\ call'.result = None
             /\ rsm' = rsm]_vars

\* a chunk numbered 3/2 has been offered to a reassembler holding one fragment
C8_Witness ==
    /\ call.op = "add_chunk"
    /\ call.arg = SequenceAboveTotal
    /\ call.result = None
    /\ rsm.total = Some(2)
    /\ DOMAIN rsm.chunks = {1}

\* C9. Foreign-chunk rejection: once a chunk with total T has been accepted,
\* add_chunk with a well-formed chunk of another total returns None and leaves
\* the fragments, the total T and the completion flag as they were.
C9_ForeignRejected ==
    [][(/\ rsm.total # None
        /\ call'.op = "add_chunk"
        /\ \/ \E t \in ForeignTriples :
                 t[2] # rsm.total[1] /\ call'.arg = ChunkString(t[1], t[2], t[3])
           \/ \E k \in 1..Len(qr) :
                 Len(qr) # rsm.total[1] /\ call'.arg = qr[k])
          => /\ call'.result = None
             /\ rsm' = rsm]_vars

\* a chunk 1/4 has been offered to a reassembler that holds a fragment of a
\* three-chunk transfer
C9_Witness ==
    /\ Len(qr) = 3
    /\ call.op = "add_chunk"
    /\ call.arg = ChunkString(1, 4, QUJD)
    /\ call.result = None
    /\ rsm.total = Some(3)
    /\ DOMAIN rsm.chunks = {2}

\* a list of integers is strictly ascending
Ascending(list) == \A i \in 1..(Len(list) - 1) : list[i] < list[i + 1]

\* C10. Reassembler progress invariant: with a known total, the stored
\* sequence numbers lie in 1..total, progress is (number of stored sequences,
\* total) with received <= total, missing_sequences is the ascending list of
\* the numbers of 1..total not stored, and is_complete holds exactly when
\* nothing is missing.
C10_ProgressInvariant ==
    rsm.total # None =>
        LET total == rsm.total[1]
            missing == MissingSequences(rsm)
        IN  /\ DOMAIN rsm.chunks \subseteq 1..total
            /\ Progress(rsm) = <<Cardinality(DOMAIN rsm.chunks), total>>
            /\ Progress(rsm)[1] <= total
            /\ Ascending(missing)
            /\ {missing[i] : i \in 1..Len(missing)} = (1..total) \ DOMAIN rsm.chunks
            /\ IsComplete(rsm) <=> (missing = <<>>)

\* two of three chunks are in: chunk 2 is the one missing
C10_Witness ==
    /\ rsm.total = Some(3)
    /\ Progress(rsm) = <<2, 3>>
    /\ MissingSequences(rsm) = <<2>>
    /\ ~IsComplete(rsm)

\* ------------------------------------------------------------------------
\* Chunk framing claims
\* ------------------------------------------------------------------------

\* chunk() has been called and has returned its list
ChunkReturned == call.op = "chunk" /\ call.result = None

\* C11. Chunk size bound: for every payload and every max_chunk_size, each
\* string chunk() emitted, header included, is at most max_chunk_size
\* characters long.
C11_ChunkSizeBound ==
    ChunkReturned => \A i \in 1..Len(qr) : Len(qr[i]) <= max_chunk_size

\* the least integer not below a / b, b # 0
CeilDiv(a, b) ==
    CHOOSE n \in (0 - a - 1)..(a + 1) :
        IF b > 0 THEN n * b >= a /\ (n - 1) * b < a
        ELSE n * b <= a /\ (n - 1) * b > a

\* what follows the header "xIRS|i/total|" in the i-th emitted chunk
FragmentOf(i) ==
    SubSeq(qr[i], Len(ChunkString(i, Len(qr), <<>>)) + 1, Len(qr[i]))

\* the fragments of the first k emitted chunks, concatenated
RECURSIVE FragmentsUpTo(_)
FragmentsUpTo(k) == IF k = 0 THEN <<>> ELSE FragmentsUpTo(k - 1) \o FragmentOf(k)

\* C12. Chunk framing: chunk() emits the one chunk 1/1 when the base64 text
\* fits the fragment capacity (the empty payload included); otherwise it
\* emits ceil(len(base64) / capacity) chunks numbered 1..total in order, each
\* with that total, each fragment non-empty, the fragments concatenated
\* being the base64 text.
C12_ChunkFraming ==
    call.op = "chunk" =>
        LET payload_b64 == B64Encode(payload)
            capacity == max_chunk_size - HEADER_OVERHEAD
        IN  /\ call.result = None
            /\ IF Len(payload_b64) <= capacity \/ payload = <<>>
               THEN qr = <<ChunkString(1, 1, payload_b64)>>
               ELSE /\ capacity # 0
                    /\ Len(qr) = CeilDiv(Len(payload_b64), capacity)
                    /\ \A i \in 1..Len(qr) :
                          /\ qr[i] = ChunkString(i, Len(qr), FragmentOf(i))
                          /\ FragmentOf(i) # <<>>
                    /\ FragmentsUpTo(Len(qr)) = payload_b64

\* ------------------------------------------------------------------------
\* Verifier claims
\* ------------------------------------------------------------------------

\* the report claims a station of the registry and carries the HMAC of its
\* other fields under the secret the registry holds for that station
Authentic(registry, report) ==
    /\ {"station_id", "hmac"} \subseteq DOMAIN report
    /\ report.station_id \in DOMAIN registry
    /\ report.hmac =
          ComputeHmac(registry[report.station_id],
                      [k \in (DOMAIN report) \ {"hmac"} |-> report[k]])

\* the last call was verify_report of the HubVerifier / the ReportDecryptor
HubVerified == call.op = "HubVerifier.verify_report"

DecryptorVerified == call.op = "ReportDecryptor.verify_report"

\* C13. Station authentication: after any sequence of register_station and
\* provision_station calls, verify_report of the HubVerifier and of the
\* ReportDecryptor returns true only for a report whose claimed station_id is
\* registered now and whose hmac is the HMAC of its other fields under the
\* secret registered now for that station_id.
C13_StationAuthentication ==
    /\ (HubVerified /\ call.result = Returns(TRUE)) => Authentic(secrets, call.arg)
    /\ (DecryptorVerified /\ call.result = Returns(TRUE))
          => Authentic(station_secrets, call.arg)

\* a report tagged with the secret STATION-PARK had before it was replaced
\* by another is turned away
C13_Witness ==
    /\ HubVerified
    /\ call.arg = ReportBody("STATION-PARK", 5)
            @@ [hmac |-> ComputeHmac(GenerateStationSecret("STATION-PARK"),
                                     ReportBody("STATION-PARK", 5))]
    /\ "STATION-PARK" \in DOMAIN secrets
    /\ secrets["STATION-PARK"] = GenerateStationSecret("STATION-GATE")
    /\ call.result = Returns(FALSE)

\* C14. verify_report never throws: for every report (no station_id, an
\* unknown station, no hmac field, an hmac that is null or no string, a
\* malformed registered secret) verify_report of the HubVerifier and of the
\* ReportDecryptor returns a boolean, false unless the report is authentic.
C14_VerifyReportNeverThrows ==
    (HubVerified \/ DecryptorVerified) =>
        /\ "returned" \in DOMAIN call.result
        /\ call.result.returned \in BOOLEAN
        /\ (HubVerified /\ ~Authentic(secrets, call.arg))
              => call.result = Returns(FALSE)
        /\ (DecryptorVerified /\ ~Authentic(station_secrets, call.arg))
              => call.result = Returns(FALSE)

\* the last call was decrypt_and_verify
DecryptedAndVerified == call.op = "ReportDecryptor.decrypt_and_verify"

\* the envelope opens under the Hub's key to this report
DecryptsTo(envelope, report) ==
    /\ {"type", "payload"} \subseteq DOMAIN envelope
    /\ envelope.type = "ENCRYPTED_REPORT"
    /\ envelope.payload.sealed_for = HubKeys.encryption_public
    /\ "json" \in DOMAIN envelope.payload.plain
    /\ envelope.payload.plain.json = report

\* C15. decrypt_and_verify returns only authenticated reports: when it
\* returns a value other than None, the envelope decrypted under the Hub
\* private key to that value and its hmac verifies under the secret
\* registered for the station it claims.
C15_OnlyAuthenticated ==
    (/\ DecryptedAndVerified
     /\ "returned" \in DOMAIN call.result
     /\ call.result.returned # None)
    => /\ DecryptsTo(call.arg, call.result.returned[1])
       /\ Authentic(station_secrets, call.result.returned[1])

\* a report of a registered station came back from decrypt_and_verify
C15_Witness ==
    /\ DecryptedAndVerified
    /\ "STATION-PARK" \in DOMAIN station_secrets
    /\ station_secrets["STATION-PARK"] = GenerateStationSecret("STATION-PARK")
    /\ call.result =
          Returns(Some(ReportBody("STATION-PARK", 5)
              @@ [hmac |-> ComputeHmac(GenerateStationSecret("STATION-PARK"),
                                       ReportBody("STATION-PARK", 5))]))

\* C16. decrypt_and_verify fails by returning nothing: for every failure
\* cause (another envelope type, no payload, a ciphertext changed or sealed
\* for another key, a plaintext that is no JSON, an HMAC mismatch, an unknown
\* station) it returns None, neither raising nor returning a report.
C16_FailsByReturningNone ==
    DecryptedAndVerified =>
        /\ "returned" \in DOMAIN call.result
        /\ (\A report \in VerifierReports :
                ~(DecryptsTo(call.arg, report) /\ Authentic(station_secrets, report)))
              => call.result = Returns(None)

\* ------------------------------------------------------------------------
\* Signing claims
\* ------------------------------------------------------------------------

\* the key is one of a keypair, not a text that is no key
IsKey(public_key_b64) == "text" \notin DOMAIN public_key_b64

\* C17 (manifest tamper detection): verify_manifest under the public key of
\* the Hub that signed returns true for the output of sign_manifest; it
\* returns false for that output with a signed field changed, with the
\* signature changed or absent, and under the public key of another keypair.
C17_ManifestTamperDetection ==
    /\ (/\ call.op = "verify_manifest"
         /\ call.arg.public_key = HubSigningKeys.public)
        => call.result = Returns(call.arg.manifest = packet[1])
    /\ (/\ call.op = "verify_manifest"
         /\ call.arg.public_key = OtherSigningKeys.public
         /\ call.arg.manifest = packet[1])
        => call.result = Returns(FALSE)

\* the text is no base64, or base64 of other than 64 bytes
BadSignatureText(signature_b64) ==
    \/ B64Decode(signature_b64) = None
    \/ Len(B64Decode(signature_b64)[1]) # SIGNATURE_BYTES

\* C18 (signature verification never throws): verify_manifest and
\* verify_data return false, and raise nothing, for a signature that is
\* malformed base64 or of the wrong length and for a public key that is
\* malformed or of the wrong length.
C18_VerificationNeverThrows ==
    /\ (/\ call.op = "verify_data"
         /\ (~IsKey(call.arg.public_key) \/ BadSignatureText(call.arg.signature)))
        => call.result = Returns(FALSE)
    /\ (/\ call.op = "verify_manifest"
         /\ \/ ~IsKey(call.arg.public_key)
            \/ /\ "signature" \in DOMAIN call.arg.manifest
               /\ BadSignatureText(call.arg.manifest.signature))
        => call.result = Returns(FALSE)

\* ------------------------------------------------------------------------
\* Delivery claims
\* ------------------------------------------------------------------------

\* every chunk of the transfer has been scanned
AllScanned == qr # <<>> /\ DOMAIN rsm.chunks = 1..Len(qr)

\* C19 (end-to-end manifest delivery): once every chunk to_qr_chunks made of
\* a manifest of create_manifest has been fed to a fresh reassembler, in
\* whatever order, the payload parsed as JSON equals manifest.to_dict(), and
\* it passes verify_manifest under the builder's public key.
C19_ManifestDelivery ==
    /\ AllScanned => rsm.complete
    /\ (call.op = "get_payload_json" /\ AllScanned)
        => call.result = Returns(Some(ToDict(packet[1])))
    /\ call.op = "verify_manifest" => call.result = Returns(TRUE)

\* a manifest of three chunks was delivered and verified
C19_Witness ==
    /\ Len(qr) >= 3
    /\ AllScanned
    /\ call.op = "verify_manifest"
    /\ call.arg.manifest = ToDict(packet[1])
    /\ call.result = Returns(TRUE)

\* the builder's station is registered with the decryptor under the
\* builder's secret, and the builder encrypts to the decryptor's key
BuilderRegistered ==
    /\ packet # None
    /\ packet[1].station_id \in DOMAIN station_secrets
    /\ station_secrets[packet[1].station_id] = packet[1].hmac.hmac_key
    /\ payload.payload.sealed_for = HubKeys.encryption_public

\* C20 (end-to-end report delivery): for a builder registered with the
\* decryptor and encrypting to its key, the envelope parsed from the chunks
\* of to_encrypted_chunks, scanned in whatever order, is the envelope sent,
\* and decrypt_and_verify returns for it a report equal to report.to_dict().
C20_ReportDelivery ==
    /\ AllScanned => rsm.complete
    /\ (call.op = "get_payload_json" /\ AllScanned)
        => call.result = Returns(Some(payload))
    /\ (call.op = "ReportDecryptor.decrypt_and_verify" /\ BuilderRegistered)
        => call.result = Returns(Some(ReportToDict(packet[1])))

\* a report of three chunks was delivered, decrypted and verified
C20_Witness ==
    /\ Len(qr) >= 3
    /\ AllScanned
    /\ call.op = "ReportDecryptor.decrypt_and_verify"
    /\ BuilderRegistered
    /\ call.arg = payload
    /\ call.result = Returns(Some(ReportToDict(packet[1])))

\* ------------------------------------------------------------------------
\* Sealed-box claims
\* ------------------------------------------------------------------------

\* the box was given a public key and no private key
PublicOnly(box) == box.seal_box # None /\ box.unseal_box = None

\* the call decrypts, with whatever method
Decrypting == call.op \in {"decrypt", "decrypt_json", "decrypt_report"}

\* C21: a SealedBox made with a public key only encrypts, and each of its
\* decrypt, decrypt_json and decrypt_report raises and returns no plaintext,
\* also for what the same box encrypted.
C21_BlindCarrier ==
    /\ (call.op \in {"encrypt", "encrypt_report"} /\ PublicOnly(call.arg.box))
        => "returned" \in DOMAIN call.result
    /\ (Decrypting /\ PublicOnly(call.arg.box))
        => call.result = Raises("ValueError: No private key provided for decryption")
           \/ (call.op = "decrypt_report" /\ "raised" \in DOMAIN call.result)

\* the carrier's box was handed the ciphertext it made itself
C21_Witness ==
    /\ call.op = "decrypt"
    /\ packet # None
    /\ PublicOnly(call.arg.box)
    /\ packet[1].box = call.arg.box
    /\ call.arg.ciphertext = packet[1].ciphertext
    /\ "raised" \in DOMAIN call.result

\* the box holds the private key of the key the packet was sealed with
OpensPacket(box) ==
    /\ box.unseal_box # None
    /\ packet[1].box.seal_box = Some(PublicKeyOf(box.unseal_box[1]))

\* C22: decrypt(encrypt(p, compress), decompress=True) by a box with the
\* matching private key returns exactly the bytes of p, for bytes, str and
\* dict plaintexts, compressed or not.
C22_SealedBoxRoundTrip ==
    (/\ call.op = "decrypt"
     /\ packet # None
     /\ call.arg.ciphertext = packet[1].ciphertext
     /\ call.arg.decompress
     /\ OpensPacket(call.arg.box))
        => call.result = Returns(PlaintextBytes(packet[1].plaintext))

\* C23: decrypt_report on an envelope of another type raises the ValueError
\* of the type check, whatever the payload is and whether or not the box has
\* a private key.
C23_TypeCheckedFirst ==
    (/\ call.op = "decrypt_report"
     /\ GetOr(call.arg.envelope, "type", "") # "ENCRYPTED_REPORT")
        => call.result = Raises("ValueError: Invalid envelope type")

\* a box without a private key was handed an envelope of another type whose
\* payload is no ciphertext
C23_Witness ==
    /\ call.op = "decrypt_report"
    /\ call.arg.box.unseal_box = None
    /\ GetOr(call.arg.envelope, "type", "") = "REPORT_PACKET"
    /\ call.result = Raises("ValueError: Invalid envelope type")

\* ------------------------------------------------------------------------
\* Builder claims
\* ------------------------------------------------------------------------

\* the fields of an envelope a carrier reads without the Hub's private key
Cleartext(envelope) == [k \in (DOMAIN envelope) \ {"payload"} |-> envelope[k]]

\* C24: an envelope of encrypt_report has the keys type, version, payload
\* and compressed and no other, and what it shows in clear is the same for
\* any two reports, whatever their station, seq_id and actions.
C24_EnvelopeRevealsNoSender ==
    /\ \A i \in 1..Len(enveloped) :
          /\ DOMAIN enveloped[i].envelope = {"type", "version", "payload", "compressed"}
          /\ Cleartext(enveloped[i].envelope) =
                 [type |-> "ENCRYPTED_REPORT", version |-> "1.8", compressed |-> TRUE]
    /\ \A i, j \in 1..Len(enveloped) :
          Cleartext(enveloped[i].envelope) = Cleartext(enveloped[j].envelope)

\* two stations' reports, of different actions, were encrypted one after
\* the other
C24_Witness ==
    /\ Len(enveloped) = 2
    /\ enveloped[1].report.station_id # enveloped[2].report.station_id
    /\ enveloped[1].report.actions # enveloped[2].report.actions
    /\ enveloped[1].report.seq_id # enveloped[2].report.seq_id
    /\ enveloped[1].envelope.payload # enveloped[2].envelope.payload

CanApply(inventory, action) ==
    /\ "item_code" \in DOMAIN action
    /\ action.item_code \in DOMAIN inventory
    /\ action.type = "DISPENSE" => action.qty.num <= inventory[action.item_code]

\* how many of the actions from the i-th on can be applied, one after the other
RECURSIVE AppliedCount(_, _, _)
AppliedCount(inventory, actions, i) ==
    IF i > Len(actions) THEN 0
    ELSE (IF CanApply(inventory, actions[i]) THEN 1 ELSE 0)
         + AppliedCount(StockAfter(inventory, <<actions[i]>>, 1), actions, i + 1)

\* C28: when a new authenticated packet is processed, an action that cannot
\* be applied does not keep the others from taking effect, and the answer
\* tells the actions applied from the others: it counts those applied, not
\* all the actions of the packet.
C28_FailedActionsReported ==
    [][\A sent \in AuthenticEnvelopes :
          (Answers(sent) /\ IsNew(TheAnswer(sent))) =>
              LET report == ReportOf(EnvelopeOf[sent]) IN
              /\ db'.inventory = StockAfter(db.inventory, report.actions, 1)
              /\ TheAnswer(sent).actions_count
                     = AppliedCount(db.inventory, report.actions, 1)]_vars

\* the envelope is of the type ingest_packet takes
RightType(envelope) == GetOr(envelope, "type", "") = "ENCRYPTED_REPORT"

\* the envelope opens with the Hub's key to a JSON report
Opens(envelope) ==
    /\ "payload" \in DOMAIN envelope
    /\ envelope.payload.sealed_for = HubKeys.encryption_public
    /\ "json" \in DOMAIN envelope.payload.plain

\* the audit row log_audit writes for a rejection of the report
RejectionRow(event_type, report) ==
    AuditRow(event_type, GetOr(report, "station_id", ""),
             GetOr(report, "packet_id", ""), "")

\* C29: after a request that ingest_packet rejected for an unknown or
\* inactive station (404), a wrong HMAC (401) or a failed decryption (400),
\* the committed logistics_audit holds the row INGEST_UNKNOWN_STATION,
\* INGEST_HMAC_FAILED or INGEST_DECRYPT_FAILED of that rejection.
C29_RejectionsAudited ==
    [][\A sent \in Envelopes :
          Answers(sent) =>
              LET envelope == EnvelopeOf[sent]
                  status_code == TheAnswer(sent).status_code
                  audit == db'.logistics_audit
              IN  /\ (status_code = 400 /\ RightType(envelope) /\ ~Opens(envelope)) =>
                         CopiesIn(AuditRow("INGEST_DECRYPT_FAILED", "", "", ""), audit) > 0
                  /\ status_code = 404 =>
                         CopiesIn(RejectionRow("INGEST_UNKNOWN_STATION",
                                               ReportOf(envelope)), audit) > 0
                  /\ status_code = 401 =>
                         CopiesIn(RejectionRow("INGEST_HMAC_FAILED",
                                               ReportOf(envelope)), audit) > 0]_vars

\* the call is answered from the checks before the INSERT into seen_packets
AnswersFromChecks(sent) ==
    Answers(sent) /\ ~\E h \in Hubs : db_lock[h] /\ ~db_lock'[h]

\* the report names a station that is registered and active
StationActive(conn, report) ==
    /\ report.station_id \in DOMAIN conn.logistics_stations
    /\ conn.logistics_stations[report.station_id].is_active = 1

\* C30: ingest_packet answers from the first check that fails, in the order
\* type, decryption, active station, HMAC, and looks into seen_packets only
\* then: a packet_id already seen is answered as a duplicate only when the
\* envelope authenticates at that call, with 404 when its station is not
\* active and with 401 when its hmac is wrong.
C30_IngestionStepOrder ==
    [][\A sent \in Envelopes :
          AnswersFromChecks(sent) =>
              LET envelope == EnvelopeOf[sent]
                  answer == TheAnswer(sent)
                  report == ReportOf(envelope)
                  named == {"packet_id", "station_id"} \subseteq DOMAIN report
              IN  IF ~RightType(envelope) THEN answer = HttpError(400)
                  ELSE IF ~Opens(envelope) THEN answer = HttpError(400)
                  ELSE IF ~named THEN answer = HttpError(400)
                  ELSE IF ~StationActive(db, report) THEN answer = HttpError(404)
                  ELSE IF "hmac" \in DOMAIN report /\ ~Authenticated(db, envelope)
                  THEN answer = HttpError(401)
                  ELSE IsDuplicate(answer) =>
                           /\ Authenticated(db, envelope)
                           /\ report.packet_id \in DOMAIN db.seen_packets]_vars

\* the acknowledgement was processed; then its quantity was changed and it
\* was sent again, and after the station was deactivated the genuine one
\* was sent again
C30_Witness ==
    /\ Len(answers["ack"]) = 2
    /\ IsNew(answers["ack"][1])
    /\ answers["ack"][2] = HttpError(404)
    /\ answers["tampered"] = <<HttpError(401)>>
    /\ "PKT-1" \in DOMAIN db.seen_packets
    /\ db.logistics_stations["STATION-PARK"].is_active = 0

\* ------------------------------------------------------------------------
\* Report HMAC claims
\* ------------------------------------------------------------------------

\* the two dicts have the same keys with the same values
SameDict(items, others) ==
    {items[i] : i \in DOMAIN items} = {others[i] : i \in DOMAIN others}

\* C25: verify_report_hmac returns True for a report add_hmac_to_report
\* tagged, checked under the same secret with its keys in any order, and
\* returns False when the value of a field or the hmac was changed or the
\* secret is another.
C25_ReportHmacTamperDetection ==
    (packet # None /\ call.op = "verify_report_hmac") =>
        LET untampered == /\ call.arg.secret = packet[1].secret
                          /\ SameDict(call.arg.report, packet[1].report)
        IN  call.result = Returns(untampered)

\* ------------------------------------------------------------------------
\* Hub key claims
\* ------------------------------------------------------------------------

\* the dict get_or_create_hub_keys reads off the committed rows
KeysStored ==
    LET signing == SelectHubKey(hub_keys, "signing")[1]
        encryption == SelectHubKey(hub_keys, "encryption")[1]
    IN  [signing_private |-> signing.private_key, signing_public |-> signing.public_key,
         encryption_private |-> encryption.private_key,
         encryption_public |-> encryption.public_key]

\* C27: every call of get_or_create_hub_keys that returns, returns the one
\* signing and the one encryption keypair stored first; hub_keys holds at
\* most one row per key type; the two keypairs come from draws of their own.
C27_HubKeysGeneratedOnce ==
    /\ Cardinality(keys_returned) <= 1
    /\ \A keys \in keys_returned : keys = KeysStored
    /\ \A i, j \in 1..Len(hub_keys) :
          hub_keys[i].key_type = hub_keys[j].key_type => i = j
    /\ \A i, j \in 1..Len(hub_keys) :
          i # j => DrawOf(hub_keys[i].private_key) # DrawOf(hub_keys[j].private_key)

\* both processes have returned the keys, one of them after its own keys
\* were refused
C27_Witness ==
    /\ keys_returned # {}
    /\ \E h \in Hubs : key_call[h].drawn > 0 /\ key_call[h].pc = "idle"
                       /\ hub_keys # <<>>
                       /\ DrawOf(hub_keys[1].private_key).drawn_by # h
    /\ call.op = "get_or_create_hub_keys"
    /\ "returned" \in DOMAIN call.result
    /\ DrawOf(hub_keys[1].private_key).drawn_by # call.arg

\* ------------------------------------------------------------------------
\* Closed reassembler claim
\* ------------------------------------------------------------------------

\* add_chunk has returned the payload: the reassembler is complete and its
\* fragments decode
PayloadReturned(r) == r.complete /\ GetPayload(r) # Raise

\* C38. Completed reassembler is closed: once add_chunk has returned the
\* payload, every further add_chunk (a re-scan, a chunk of another transfer, a
\* malformed string) returns None and changes nothing, get_payload returns the
\* payload the completing call returned, only reset() changes the reassembler
\* and leaves it in the state of a new one, and a new reassembler takes the
\* total of the first well-formed chunk it is given, whatever that total is.
C38_CompletedReassemblerClosed ==
    [][/\ (PayloadReturned(rsm) /\ call'.op = "add_chunk")
            => call'.result = None /\ rsm' = rsm
       /\ (PayloadReturned(rsm) /\ call'.op = "get_payload")
            => call'.result = GetPayload(rsm) /\ rsm' = rsm
       /\ (PayloadReturned(rsm) /\ rsm' # rsm)
            => call'.op = "reset" /\ rsm' = FreshReassembler
       /\ (~rsm.complete /\ PayloadReturned(rsm'))
            => call'.op = "add_chunk" /\ call'.result = GetPayload(rsm')
       /\ call'.op = "reset" => rsm' = FreshReassembler
       /\ (rsm = FreshReassembler /\ call'.op = "add_chunk"
             /\ ParseChunk(call'.arg) # None)
            => rsm'.total = Some(ParseChunk(call'.arg)[1].total)]_vars

\* a reassembler that has returned a two-chunk payload has been offered the
\* first chunk of a four-chunk transfer: None, and the payload is still there
C38_Witness ==
    /\ Len(qr) = 2
    /\ rsm.total = Some(2)
    /\ PayloadReturned(rsm)
    /\ call.op = "add_chunk"
    /\ call.arg = ChunkString(1, 4, QUJD)
    /\ call.result = None
    /\ GetPayload(rsm) = Reassemble(rsm.chunks, 2)

\* after a three-chunk transfer was emitted, a reset reassembler has taken
\* the foreign two-chunk transfer and returned its payload
C38_ResetWitness ==
    /\ Len(qr) = 3
    /\ rsm.total = Some(2)
    /\ PayloadReturned(rsm)
    /\ call.op = "add_chunk"
    /\ call.result = GetPayload(rsm)

\* ------------------------------------------------------------------------
\* Station and manifest claims
\* ------------------------------------------------------------------------

\* the envelope opens to a report that names a packet and a station
NamesStation(envelope) ==
    /\ envelope.type = "ENCRYPTED_REPORT"
    /\ envelope.payload.sealed_for = HubKeys.encryption_public
    /\ "json" \in DOMAIN envelope.payload.plain
    /\ {"packet_id", "station_id"} \subseteq DOMAIN envelope.payload.plain.json

\* the station of the envelope's report is registered and out of service
StationDeactivated(conn, envelope) ==
    /\ NamesStation(envelope)
    /\ ReportOf(envelope).station_id \in DOMAIN conn.logistics_stations
    /\ conn.logistics_stations[ReportOf(envelope).station_id].is_active = 0

\* a Hub process passes the checks with this envelope and goes on to the INSERT
TakenUp(sent) ==
    \E h \in Hubs : ~db_lock[h] /\ db_lock'[h] /\ request'[h] = Some(sent)

AcceptedSeqs(station_id) ==
    {ReportOf(EnvelopeOf[sent]).seq_id :
        sent \in {x \in Envelopes :
                    /\ NamesStation(EnvelopeOf[x])
                    /\ ReportOf(EnvelopeOf[x]).station_id = station_id
                    /\ \E i \in DOMAIN answers[x] : IsNew(answers[x][i])}}

\* the greatest of a set of naturals and 0
Greatest(numbers) ==
    IF numbers = {} THEN 0 ELSE CHOOSE m \in numbers : \A n \in numbers : n <= m

\* the marker of a station
LastSeqId(conn, station_id) == conn.logistics_stations[station_id].last_seq_id

\* C32. Station sequence marker is monotone: whatever the order in which the
\* seq_ids arrive, last_seq_id of a station is the greatest of 0, its value at
\* provisioning, and the seq_ids of the station's packets answered as new; it
\* never decreases, and it changes only when a new packet of that very
\* station is committed, to that packet's seq_id.
C32_SequenceMarkerMonotone ==
    /\ [](\A s \in DOMAIN db.logistics_stations :
            LastSeqId(db, s) = Greatest(AcceptedSeqs(s)))
    /\ [][\A s \in DOMAIN db.logistics_stations :
            /\ LastSeqId(db', s) >= LastSeqId(db, s)
            /\ LastSeqId(db', s) # LastSeqId(db, s) =>
                  \E h \in Hubs :
                     /\ db_lock[h] /\ ~db_lock'[h]
                     /\ IsNew(TheAnswer(request[h][1]))
                     /\ ReportOf(EnvelopeOf[request[h][1]]).station_id = s
                     /\ ReportOf(EnvelopeOf[request[h][1]]).seq_id = LastSeqId(db', s)
          ]_vars

\* STATION-PARK's packets with seq_id 5 and 1 were both processed, and a
\* replay of the second was answered as a duplicate: the marker is 5
C32_Witness ==
    /\ Len(answers["mixed"]) = 1
    /\ IsNew(answers["mixed"][1])
    /\ Len(answers["ack"]) = 2
    /\ IsNew(answers["ack"][1])
    /\ IsDuplicate(answers["ack"][2])
    /\ LastSeqId(db, "STATION-PARK") = 5

\* the status of a stored manifest
ManifestStatus(conn, manifest_id) == conn.logistics_manifests[manifest_id].status

\* the report is tagged with the secret registered for the station it names
RightlyTagged(conn, envelope) ==
    /\ NamesStation(envelope)
    /\ "hmac" \in DOMAIN ReportOf(envelope)
    /\ ReportOf(envelope).station_id \in DOMAIN conn.logistics_stations
    /\ ReportOf(envelope).hmac =
          ComputeHmac(
              conn.logistics_stations[ReportOf(envelope).station_id].station_secret,
              Signable(ReportOf(envelope)))

\* a Hub process commits a new packet whose RECEIVE names the manifest
AcknowledgedBy(h, manifest_id) ==
    /\ db_lock[h] /\ ~db_lock'[h]
    /\ IsNew(TheAnswer(request[h][1]))
    /\ RightlyTagged(db, EnvelopeOf[request[h][1]])
    /\ manifest_id \in Acknowledged(ReportOf(EnvelopeOf[request[h][1]]).actions)

\* C33. Manifest status lifecycle: create_manifest stores the manifest with
\* status PENDING; a stored manifest becomes ACKNOWLEDGED only in the commit
\* of a new, rightly tagged packet with a RECEIVE action that names its
\* manifest_id; no later ingestion or manifest creation removes it or takes
\* it back to PENDING.
C33_ManifestLifecycle ==
    [][/\ \A m \in (DOMAIN db'.logistics_manifests) \ DOMAIN db.logistics_manifests :
            ManifestStatus(db', m) = "PENDING"
       /\ \A m \in DOMAIN db.logistics_manifests :
            /\ m \in DOMAIN db'.logistics_manifests
            /\ ManifestStatus(db, m) = "ACKNOWLEDGED" =>
                  ManifestStatus(db', m) = "ACKNOWLEDGED"
            /\ ManifestStatus(db', m) # ManifestStatus(db, m) =>
                  /\ ManifestStatus(db', m) = "ACKNOWLEDGED"
                  /\ \E h \in Hubs : AcknowledgedBy(h, m)
      ]_vars

\* MF-1 was acknowledged by STATION-PARK's packet, whose replay was answered
\* as a duplicate, and MF-2, which no packet names, is pending
C33_Witness ==
    /\ DOMAIN db.logistics_manifests = {"MF-1", "MF-2"}
    /\ ManifestStatus(db, "MF-1") = "ACKNOWLEDGED"
    /\ ManifestStatus(db, "MF-2") = "PENDING"
    /\ Len(answers["ack"]) = 2
    /\ IsNew(answers["ack"][1])
    /\ IsDuplicate(answers["ack"][2])
    /\ answers["gate"] = <<>>

\* C34. Acknowledgement comes from the addressee: a manifest made out to a
\* station changes its status only in the commit of a packet of that station;
\* a packet of another station that names the manifest_id leaves the status
\* as it was.
C34_AcknowledgedByAddressee ==
    [][\A m \in DOMAIN db.logistics_manifests :
          ManifestStatus(db', m) # ManifestStatus(db, m) =>
              \E h \in Hubs :
                 /\ AcknowledgedBy(h, m)
                 /\ ReportOf(EnvelopeOf[request[h][1]]).station_id
                       = db.logistics_manifests[m].station_id
      ]_vars

\* ------------------------------------------------------------------------
\* Packet id and inventory claims
\* ------------------------------------------------------------------------

\* C35. Deduplication is by packet_id alone: a call whose envelope
\* authenticates and whose packet_id is in seen_packets is answered as a
\* duplicate, is not taken on to the INSERT and changes no inventory,
\* manifest, seen_packets row or marker, whatever the station, the seq_id,
\* the actions and the payload hash of the recorded packet are.
C35_DedupByPacketIdAlone ==
    [][\A sent \in Envelopes :
          (/\ Authenticated(db, EnvelopeOf[sent])
           /\ ReportOf(EnvelopeOf[sent]).packet_id \in DOMAIN db.seen_packets)
            => /\ ~TakenUp(sent)
               /\ AnswersFromChecks(sent) =>
                     /\ IsDuplicate(TheAnswer(sent))
                     /\ IngestTables(db') = IngestTables(db)
      ]_vars

\* PKT-1 was recorded for STATION-PARK with seq_id 1; STATION-GATE's packet
\* under the same packet_id, with seq_id 7, other actions and another payload
\* hash, was answered as a duplicate and nothing of it was applied
C35_Witness ==
    /\ Len(answers["ack"]) = 1
    /\ IsNew(answers["ack"][1])
    /\ Len(answers["reused_id"]) = 1
    /\ IsDuplicate(answers["reused_id"][1])
    /\ db.seen_packets["PKT-1"].station_id = "STATION-PARK"
    /\ db.seen_packets["PKT-1"].payload_hash
          # PayloadHash(ReusedIdReport)
    /\ db.inventory["generator"] = 3
    /\ LastSeqId(db, "STATION-PARK") = 1
    /\ LastSeqId(db, "STATION-GATE") = 0

\* C37. Inventory never goes negative through ingestion: whatever integer
\* quantities the DISPENSE and RECEIVE actions of the ingested packets carry,
\* every inventory quantity is >= 0.
C37_InventoryNeverNegative ==
    \A item \in DOMAIN db.inventory : db.inventory[item] >= 0

\* ------------------------------------------------------------------------
\* Agreement of the HMAC checks
\* ------------------------------------------------------------------------

\* the inline verification of ingest_packet has run
IngestVerified == call.op = "ingest_packet"

C40_AcceptWitness ==
    /\ IngestVerified
    /\ call.result.proceed
    /\ call.arg.station_id = "STATION-PARK"
    /\ HubVerifierVerifyReport(secrets, call.arg) = Returns(TRUE)
    /\ DecryptorVerifyReport(secrets, call.arg) = Returns(TRUE)

\* ------------------------------------------------------------------------
\* Printed manifest claim
\* ------------------------------------------------------------------------

\* C36. Printed manifest stays verifiable: the manifest data that
\* get_manifest_printable puts into the printable document is the manifest
\* create_manifest returned, signed fields and signature alike, and passes
\* verify_manifest under the Hub's signing public key.
C36_PrintedManifestVerifiable ==
    (packet # None /\ packet[1].printed # None) =>
        /\ packet[1].printed[1] = ToDict(packet[1].manifest)
        /\ VerifierVerifyManifest(HubSigningKeys.public, packet[1].printed[1])
              = Returns(TRUE)

\* the manifest as returned verifies under the Hub's public key and the
\* printed one, with the same signature, does not
C36_PrintedRejected ==
    /\ packet # None
    /\ packet[1].printed # None
    /\ packet[1].printed[1].signature = packet[1].manifest.signature
    /\ packet[1].printed[1].ts = packet[1].manifest.ts
    /\ VerifierVerifyManifest(HubSigningKeys.public, ToDict(packet[1].manifest))
          = Returns(TRUE)
    /\ call.op = "verify_manifest"
    /\ call.arg.manifest = packet[1].printed[1]
    /\ call.arg.public_key = HubSigningKeys.public
    /\ call.result = Returns(FALSE)

\* ------------------------------------------------------------------------
\* Report aliasing claim
\* ------------------------------------------------------------------------

\* the report an envelope was made of
Enveloped(envelope) == envelope.payload.plain.json

\* C39. The HMAC covers what is sent: however the add_..._action calls are
\* interleaved with create_report and encrypt_report, the report in the
\* envelope carries an hmac that verifies over the actions it contains, and
\* the Hub's decrypt_and_verify returns it.
C39_HmacCoversWhatIsSent ==
    (packet # None /\ packet[1].envelope # None) =>
        /\ VerifyReportHmac(Builders.park.secret, Enveloped(packet[1].envelope[1]))
              = Returns(TRUE)
        /\ call.op = "ReportDecryptor.decrypt_and_verify" =>
              call.result = Returns(Some(Enveloped(packet[1].envelope[1])))

\* an action was added between create_report and encrypt_report, and the
\* Hub turned the envelope away
C39_StaleHmacRejected ==
    /\ packet # None
    /\ packet[1].envelope # None
    /\ Len(Enveloped(packet[1].envelope[1]).actions) = 2
    /\ Enveloped(packet[1].envelope[1]).hmac
          = ComputeHmac(Builders.park.secret,
                        Signable([Enveloped(packet[1].envelope[1])
                                     EXCEPT !.actions = SubSeq(@, 1, 1)]))
    /\ call.op = "ReportDecryptor.decrypt_and_verify"
    /\ call.result = Returns(None)

====
